---------------------------- MODULE Spec2Model ----------------------------
(***************************************************************************)
(* Privacy-Guard: the blocking predicate (PrivacyGuard.shouldBlock with    *)
(* hostnameMatches / urlMatches) and the URL cleaner (URLCleaner.cleanHref *)
(* and its per-domain rules).                                              *)
(*                                                                         *)
(* JavaScript strings are sequences of one-character strings, so that      *)
(* split, slice, startsWith, includes and the regular expressions of the   *)
(* source are computed character by character.  A JavaScript value that    *)
(* may be a non-string (a pattern entry, a rule field, an argument) is a   *)
(* record [t |-> "str" | "num" | "null", s |-> its String() form].         *)
(*                                                                         *)
(* The platform's URL class (new URL, href, searchParams) is modelled by   *)
(* ParseURL / Href / ParseQuery / SerializeQuery for the characters the    *)
(* inputs of this model are made of: letters, digits and . - _ * / : ? # = *)
(* & % + and the space.                                                    *)
(***************************************************************************)
EXTENDS Integers, Sequences, FiniteSets, TLC

VARIABLES
    BLOCKED_HOSTS,    \* blocklist.js: mutable array of host patterns
    BLOCKED_RULES,    \* blocklist.js: mutable array of {host, pathStartsWith}
    ALLOWED_HOSTS,    \* allowlists.js: mutable array of host patterns
    ALLOWED_RULES,    \* allowlists.js: mutable array of {host, pathStartsWith}
    allowSameOrigin,  \* CONFIG.allowSameOrigin
    blockUrl,         \* argument of the last shouldBlock call (a JS value)
    blockResult,      \* its outcome: "true", "false", "throw", or "none" before any call
    cleanInput,       \* argument of the last cleanHref call
    cleanOutput,      \* [threw, value]: what that call returned
    cleanCalls,       \* how many times cleanHref ran on this href (0 = not yet)
    networkBlock,     \* MODE.networkBlock: "fail" or "silent"
    xhrStored,        \* the value under PRIVACY_GUARD_URL on the request object (Null: absent)
    xhrTarget,        \* the URL the native open received (Null: never opened)
    xhrReady,         \* the native object: "unsent", "opened", or "done" once sent
    xhrNativeSends,   \* the URLs for which the native send was called
    xhrMicrotasks,    \* queued microtasks that dispatch error, abort and loadend
    xhrSends,         \* how many times send() was called
    fetchNative,      \* the inputs handed to the native fetch
    fetchOutcome,     \* what the last fetch call did
    initialized,      \* PrivacyGuard._initialized
    imgPixels,        \* STATE.featureEnabled.imgPixels
    imgEnabled,       \* imgPixelBlocker.enabled
    origSetAttribute, \* imgPixelBlocker.origSetAttribute: a function, <<>> for null
    setAttribute,     \* Element.prototype.setAttribute: the wrappers around the native
                      \* function, outermost first
    nativeSetAttribute, \* <<tag, value>> of the calls that reached the native setAttribute
    scriptSrcSet,     \* the values handed to the native src setter of a script
    neutralized,      \* how many script elements neutralizeScript has disarmed
    domParent,        \* the parent of each node: a container, "doc", or "none" (detached)
    records,          \* addedNodes of the mutation records not yet delivered
    pending,          \* the Set pending of observeDOMChanges, in insertion order
    scheduled,        \* the flag scheduled: a runPending callback is queued
    lastRoots,        \* the roots the last runPending scanned
    anchorHref,       \* the href attribute of the page's anchor
    pgBlock,          \* anchor.dataset.pgBlock is "1"
    pgCleaned,        \* anchor.dataset.privacyGuardCleaned is "1"
    rtRecords,        \* the runtime observer's queued mutation records
    rtBatches,        \* parity of the number of record batches delivered
    held,             \* the anchor was neutralized and the page assigned no href since
    recleanDue,       \* the page changed the href of the cleaned anchor, not yet rewritten
    wasCleaned,       \* rewriteElAttr has handled the anchor
    clickResult,      \* the last click: [type, prevented, href, held], type "none" at first
    scriptBlockMode,  \* CONFIG.scriptBlockMode
    overrides,        \* what STORAGE.get(location.hostname) returns
    overridesApplied  \* applyOverridesForHost has run since the entry was last written

netVars == <<networkBlock, xhrStored, xhrTarget, xhrReady, xhrNativeSends, xhrMicrotasks,
             xhrSends, fetchNative, fetchOutcome>>

hookVars == <<initialized, imgPixels, imgEnabled, origSetAttribute, setAttribute,
              nativeSetAttribute, scriptSrcSet, neutralized>>

domVars == <<domParent, records, pending, scheduled, lastRoots>>

rtVars == <<anchorHref, pgBlock, pgCleaned, rtRecords, rtBatches, held, recleanDue,
            wasCleaned, clickResult>>

configVars == <<scriptBlockMode, overrides, overridesApplied>>

pageVars == <<netVars, hookVars, domVars, rtVars, configVars>>

vars == <<BLOCKED_HOSTS, BLOCKED_RULES, ALLOWED_HOSTS, ALLOWED_RULES, allowSameOrigin,
          blockUrl, blockResult, cleanInput, cleanOutput, cleanCalls, pageVars>>

blockVars == <<BLOCKED_HOSTS, BLOCKED_RULES, ALLOWED_HOSTS, ALLOWED_RULES, allowSameOrigin,
               blockUrl, blockResult>>

cleanVars == <<cleanInput, cleanOutput, cleanCalls>>

\* what the steps of one part of the model leave alone
netRest == <<blockVars, cleanVars, hookVars, domVars, rtVars, configVars>>
hookRest == <<blockVars, cleanVars, netVars, domVars, rtVars, configVars>>
domRest == <<blockVars, cleanVars, netVars, hookVars, rtVars, configVars>>
rtRest == <<blockVars, cleanVars, netVars, hookVars, domVars, configVars>>

-----------------------------------------------------------------------------
(* Strings.                                                                *)

UPPER == <<"A","B","C","D","E","F","G","H","I","J","K","L","M","N","O","P","Q","R","S","T","U","V","W","X","Y","Z">>
LOWER == <<"a","b","c","d","e","f","g","h","i","j","k","l","m","n","o","p","q","r","s","t","u","v","w","x","y","z">>
DIGITS == <<"0","1","2","3","4","5","6","7","8","9">>

UpperSet == {UPPER[i] : i \in 1..26}
LowerSet == {LOWER[i] : i \in 1..26}
DigitSet == {DIGITS[i] : i \in 1..10}
AlnumSet == UpperSet \cup LowerSet \cup DigitSet

LowerOf == [c \in UpperSet |-> LOWER[CHOOSE i \in 1..26 : UPPER[i] = c]]
UpperOf == [c \in LowerSet |-> UPPER[CHOOSE i \in 1..26 : LOWER[i] = c]]

\* String.prototype.toLowerCase / toUpperCase
toLowerCase(s) == [i \in 1..Len(s) |-> IF s[i] \in UpperSet THEN LowerOf[s[i]] ELSE s[i]]
toUpperCase(s) == [i \in 1..Len(s) |-> IF s[i] \in LowerSet THEN UpperOf[s[i]] ELSE s[i]]

\* s.slice(i) with the 1-based index of the first character kept
SliceFrom(s, i) == SubSeq(s, i, Len(s))

startsWith(s, p) == Len(p) <= Len(s) /\ SubSeq(s, 1, Len(p)) = p
endsWith(s, p) == Len(p) <= Len(s) /\ SubSeq(s, Len(s) - Len(p) + 1, Len(s)) = p

\* does p occur in s at the 1-based position i
OccursAt(s, p, i) == i >= 1 /\ i + Len(p) - 1 <= Len(s) /\ SubSeq(s, i, i + Len(p) - 1) = p

includes(s, p) == \E i \in 1..(Len(s) + 1) : OccursAt(s, p, i)

\* 1-based index of the first character of s, at or after i, that is in the set cs; 0 if none
IndexOfAny(s, cs, i) ==
    IF \E j \in i..Len(s) : s[j] \in cs
    THEN CHOOSE j \in i..Len(s) : s[j] \in cs /\ \A k \in i..(j - 1) : s[k] \notin cs
    ELSE 0

\* the strings pieces[lo], ..., pieces[hi] one after the other
RECURSIVE Concat(_, _, _)
Concat(pieces, lo, hi) ==
    IF lo > hi THEN <<>>
    ELSE IF lo = hi THEN pieces[lo]
    ELSE Concat(pieces, lo, (lo + hi) \div 2) \o Concat(pieces, (lo + hi) \div 2 + 1, hi)

\* s.split(c) for a one-character separator
RECURSIVE split(_, _)
split(s, c) ==
    LET i == IndexOfAny(s, {c}, 1)
    IN  IF i = 0 THEN <<s>>
        ELSE <<SubSeq(s, 1, i - 1)>> \o split(SliceFrom(s, i + 1), c)

\* parts.join(c)
RECURSIVE join(_, _)
join(parts, c) ==
    IF Len(parts) = 0 THEN <<>>
    ELSE IF Len(parts) = 1 THEN parts[1]
    ELSE parts[1] \o <<c>> \o join(Tail(parts), c)

RECURSIVE TrimStart(_)
TrimStart(s) == IF Len(s) > 0 /\ s[1] = " " THEN TrimStart(Tail(s)) ELSE s

RECURSIVE TrimEnd(_)
TrimEnd(s) == IF Len(s) > 0 /\ s[Len(s)] = " " THEN TrimEnd(SubSeq(s, 1, Len(s) - 1)) ELSE s

\* String.prototype.trim
trim(s) == TrimEnd(TrimStart(s))

\* parts.slice(-n)
LastN(parts, n) == SubSeq(parts, Len(parts) - n + 1, Len(parts))

-----------------------------------------------------------------------------
(* JavaScript values that need not be strings.                             *)

Str(s) == [t |-> "str", s |-> s]
Null == [t |-> "null", s |-> <<"n","u","l","l">>]
Num(digits) == [t |-> "num", s |-> digits]

\* the JavaScript truth value of v (the numbers used here are non-zero)
Truthy(v) ==
    CASE v.t = "null" -> FALSE
      [] v.t = "str" -> Len(v.s) > 0
      [] OTHER -> TRUE

\* String(v)
String(v) == v.s

-----------------------------------------------------------------------------
(* Hostname matcher: src/src/core/privacy-guard.js                         *)

normalizeHostname(value) ==
    IF Len(value) = 0 THEN <<>>
    ELSE IF endsWith(value, <<".">>) THEN SubSeq(value, 1, Len(value) - 1)
    ELSE value

\* a raw character-suffix comparison in place of the label comparison
hostnameLabelsMatch_rawSuffix(hostname, pattern) == endsWith(hostname, pattern)

hostnameLabelsMatch(hostname, pattern) ==
    LET hostParts == split(hostname, ".")
        patternParts == split(pattern, ".")
    IN  IF Len(patternParts) < 2 \/ Len(patternParts) > Len(hostParts) THEN FALSE
        ELSE join(LastN(hostParts, Len(patternParts)), ".") = pattern

\* a matcher without the wildcard branch: "*.base" is compared as it is written
patternMatches_noWildcard(hostNorm, pattern) ==
    IF ~Truthy(pattern) THEN FALSE
    ELSE
      LET pat == toLowerCase(trim(String(pattern)))
      IN  IF Len(pat) = 0 \/ pat = <<"*">> THEN FALSE
          ELSE
            LET patNorm == normalizeHostname(pat)
            IN  hostNorm = patNorm \/ hostnameLabelsMatch(hostNorm, patNorm)

\* the callback of patterns.some(...) in hostnameMatches
patternMatches(hostNorm, pattern) ==
    IF ~Truthy(pattern) THEN FALSE
    ELSE
      LET pat == toLowerCase(trim(String(pattern)))
      IN  IF Len(pat) = 0 \/ pat = <<"*">> THEN FALSE
          ELSE
            LET patNorm == normalizeHostname(pat)
            IN  IF startsWith(patNorm, <<"*",".">>)
                THEN LET base == SliceFrom(patNorm, 3)
                     IN  IF Len(base) = 0 THEN FALSE
                         ELSE hostNorm = base \/ hostnameLabelsMatch(hostNorm, base)
                ELSE hostNorm = patNorm \/ hostnameLabelsMatch(hostNorm, patNorm)

\* a substring search of the whole URL in place of the comparison of its hostname
hostnameMatches_wholeUrl(urlObj, patterns) ==
    \E i \in 1..Len(patterns) :
        /\ Truthy(patterns[i])
        /\ includes(urlObj.hostname \o urlObj.pathname \o <<"?">> \o urlObj.query,
                    toLowerCase(trim(String(patterns[i]))))

\* urlObj is a parsed URL (never null where the source calls it); patterns an array
hostnameMatches(urlObj, patterns) ==
    IF Len(patterns) = 0 THEN FALSE
    ELSE
      LET host == toLowerCase(urlObj.hostname)
      IN  IF Len(host) = 0 THEN FALSE
          ELSE LET hostNorm == normalizeHostname(host)
               IN  \E i \in 1..Len(patterns) : patternMatches(hostNorm, patterns[i])

-----------------------------------------------------------------------------
(* The platform's URL class, as the source uses it: new URL(input, base),  *)
(* the component getters and setters, searchParams and toString().         *)

\* percent codes of the characters of the model's alphabet that are ever encoded
PctCodes == <<<<"3","A">>, <<"2","F">>, <<"3","F">>, <<"2","3">>, <<"3","D">>, <<"2","6">>, <<"2","5">>, <<"2","B">>, <<"2","0">>>>
PctChars == <<":", "/", "?", "#", "=", "&", "%", "+", " ">>

\* index in PctCodes of the percent code at the head of s, or 0
PctHead(s) ==
    IF Len(s) >= 3 /\ s[1] = "%"
    THEN LET code == toUpperCase(SubSeq(s, 2, 3))
         IN  IF \E i \in 1..Len(PctCodes) : PctCodes[i] = code
             THEN CHOOSE i \in 1..Len(PctCodes) : PctCodes[i] = code
             ELSE 0
    ELSE 0

\* what the character at i of s contributes to the decoded string: the character of
\* the code that starts there, nothing for the two digits of a code, else itself
DecodedAt(s, i) ==
    IF PctHead(SliceFrom(s, i)) > 0 THEN <<PctChars[PctHead(SliceFrom(s, i))]>>
    ELSE IF \/ i > 1 /\ PctHead(SliceFrom(s, i - 1)) > 0
            \/ i > 2 /\ PctHead(SliceFrom(s, i - 2)) > 0
         THEN <<>>
    ELSE <<s[i]>>

\* percent-decoding: a code is replaced by its character, anything else is kept
PercentDecode(s) == Concat([i \in 1..Len(s) |-> DecodedAt(s, i)], 1, Len(s))

\* does s hold a "%" that starts no percent code (decodeURIComponent throws URIError)
MalformedPercent(s) == \E i \in 1..Len(s) : s[i] = "%" /\ PctHead(SliceFrom(s, i)) = 0

\* application/x-www-form-urlencoded byte serializer
FormSafe == AlnumSet \cup {"*", "-", ".", "_"}

FormEncodeChar(c) ==
    IF c \in FormSafe THEN <<c>>
    ELSE IF c = " " THEN <<"+">>
    ELSE IF \E i \in 1..Len(PctChars) : PctChars[i] = c
         THEN <<"%">> \o PctCodes[CHOOSE i \in 1..Len(PctChars) : PctChars[i] = c]
    ELSE <<c>>

FormEncode(s) == Concat([i \in 1..Len(s) |-> FormEncodeChar(s[i])], 1, Len(s))

PlusToSpace(s) == [i \in 1..Len(s) |-> IF s[i] = "+" THEN " " ELSE s[i]]

\* one name=value piece of a query string, as URLSearchParams parses it
ParsePair(piece) ==
    LET i == IndexOfAny(piece, {"="}, 1)
        name == IF i = 0 THEN piece ELSE SubSeq(piece, 1, i - 1)
        value == IF i = 0 THEN <<>> ELSE SliceFrom(piece, i + 1)
    IN  [k |-> PercentDecode(PlusToSpace(name)), v |-> PercentDecode(PlusToSpace(value))]

RECURSIVE ParsePieces(_)
ParsePieces(pieces) ==
    IF Len(pieces) = 0 THEN <<>>
    ELSE IF Len(pieces[1]) = 0 THEN ParsePieces(Tail(pieces))
    ELSE <<ParsePair(pieces[1])>> \o ParsePieces(Tail(pieces))

\* the list of a URL's searchParams, from its query string
ParseQuery(q) == ParsePieces(split(q, "&"))

RECURSIVE SerializeQuery(_)
SerializeQuery(list) ==
    IF Len(list) = 0 THEN <<>>
    ELSE FormEncode(list[1].k) \o <<"=">> \o FormEncode(list[1].v)
         \o (IF Len(list) > 1 THEN <<"&">> \o SerializeQuery(Tail(list)) ELSE <<>>)

SpecialSchemes == {<<"h","t","t","p">>, <<"h","t","t","p","s">>, <<"w","s">>, <<"w","s","s">>, <<"f","t","p">>}

DefaultPort(scheme) ==
    CASE scheme \in {<<"h","t","t","p">>, <<"w","s">>} -> <<"8","0">>
      [] scheme \in {<<"h","t","t","p","s">>, <<"w","s","s">>} -> <<"4","4","3">>
      [] scheme = <<"f","t","p">> -> <<"2","1">>
      [] OTHER -> <<>>

\* a URL record; ok = FALSE is the TypeError of new URL
FailURL ==
    [ok |-> FALSE, scheme |-> <<>>, hostname |-> <<>>, port |-> <<>>, pathname |-> <<>>,
     opaque |-> FALSE, hasQuery |-> FALSE, query |-> <<>>, params |-> <<>>,
     hasHash |-> FALSE, fragment |-> <<>>]

SchemeChars == AlnumSet \cup {"+", "-", "."}

\* 1-based index of the ":" that ends a scheme at the head of s, or 0
SchemeEnd(s) ==
    LET i == IndexOfAny(s, {":"}, 1)
    IN  IF i > 1 /\ s[1] \in (UpperSet \cup LowerSet) /\ \A j \in 1..(i - 1) : s[j] \in SchemeChars
        THEN i ELSE 0

RECURSIVE SkipSlashes(_)
SkipSlashes(s) == IF Len(s) > 0 /\ s[1] = "/" THEN SkipSlashes(Tail(s)) ELSE s

\* 1-based index of the last c in s at or before i; 0 if none
LastIndexOf(s, c, i) ==
    IF \E j \in 1..i : s[j] = c
    THEN CHOOSE j \in 1..i : s[j] = c /\ \A k \in (j + 1)..i : s[k] # c
    ELSE 0

\* path segments with "." and ".." resolved (the URL parser's path state)
RECURSIVE DotSegments(_, _)
DotSegments(segs, acc) ==
    IF Len(segs) = 0 THEN acc
    ELSE LET seg == segs[1]
             last == Len(segs) = 1
         IN  IF seg = <<".",".">>
             THEN LET popped == IF Len(acc) > 0 THEN SubSeq(acc, 1, Len(acc) - 1) ELSE acc
                  IN  DotSegments(Tail(segs), IF last THEN Append(popped, <<>>) ELSE popped)
             ELSE IF seg = <<".">>
             THEN DotSegments(Tail(segs), IF last THEN Append(acc, <<>>) ELSE acc)
             ELSE DotSegments(Tail(segs), Append(acc, seg))

\* the pathname of a special URL from the raw path text (empty, or starting with "/")
NormalizePath(raw) ==
    IF Len(raw) = 0 THEN <<"/">>
    ELSE <<"/">> \o join(DotSegments(split(SliceFrom(raw, IF raw[1] = "/" THEN 2 ELSE 1), "/"), <<>>), "/")

\* path and query of the text before the fragment, with the fragment found already;
\* params is the list of the URL's searchParams object
SplitQuery(beforeHash, hasHash, fragment) ==
    LET q == IndexOfAny(beforeHash, {"?"}, 1)
    IN  [pathname |-> IF q = 0 THEN beforeHash ELSE SubSeq(beforeHash, 1, q - 1),
         hasQuery |-> q > 0,
         query |-> IF q = 0 THEN <<>> ELSE SliceFrom(beforeHash, q + 1),
         params |-> IF q = 0 THEN <<>> ELSE ParseQuery(SliceFrom(beforeHash, q + 1)),
         hasHash |-> hasHash,
         fragment |-> fragment]

\* path, query and fragment of the text that follows the authority
SplitTail(tail) ==
    LET h == IndexOfAny(tail, {"#"}, 1)
    IN  SplitQuery(IF h = 0 THEN tail ELSE SubSeq(tail, 1, h - 1),
                   h > 0,
                   IF h = 0 THEN <<>> ELSE SliceFrom(tail, h + 1))

ForbiddenHostChars == {" ", "#", "/", ":", "?", "%", "[", "]"}

\* an IPv6 literal in brackets, as it stands in an authority
IsBracketed(host) ==
    /\ Len(host) > 2 /\ host[1] = "[" /\ host[Len(host)] = "]"
    /\ \A i \in 2..(Len(host) - 1) : host[i] \in DigitSet \cup LowerSet \cup {":"}

\* the URL of a special scheme from its host, its port and what follows the authority
AuthorityURL(scheme, host, portRaw, t) ==
    IF \/ Len(host) = 0
       \/ ~IsBracketed(host) /\ (\E i \in 1..Len(host) : host[i] \in ForbiddenHostChars)
       \/ (\E i \in 1..Len(portRaw) : portRaw[i] \notin DigitSet)
    THEN FailURL
    ELSE [ok |-> TRUE, scheme |-> scheme, hostname |-> host,
          port |-> IF portRaw = DefaultPort(scheme) THEN <<>> ELSE portRaw,
          pathname |-> NormalizePath(t.pathname), opaque |-> FALSE,
          hasQuery |-> t.hasQuery, query |-> t.query, params |-> t.params,
          hasHash |-> t.hasHash, fragment |-> t.fragment]

\* scheme://authority/... of a special scheme; rest is the text after the slashes
ParseAuthority(scheme, rest) ==
    LET e == IndexOfAny(rest, {"/", "?", "#"}, 1)
        auth == IF e = 0 THEN rest ELSE SubSeq(rest, 1, e - 1)
        c == IF Len(auth) > 0 /\ auth[Len(auth)] = "]" THEN 0
             ELSE LastIndexOf(auth, ":", Len(auth))
    IN  AuthorityURL(scheme,
                     toLowerCase(PercentDecode(IF c = 0 THEN auth ELSE SubSeq(auth, 1, c - 1))),
                     IF c = 0 THEN <<>> ELSE SliceFrom(auth, c + 1),
                     SplitTail(IF e = 0 THEN <<>> ELSE SliceFrom(rest, e)))

\* scheme://authority/... of a non-special scheme: the host is kept as written, an
\* empty host and an empty path are allowed; rest is the text after the two slashes
ParseOpaqueHost(scheme, rest) ==
    LET e == IndexOfAny(rest, {"/", "?", "#"}, 1)
        auth == IF e = 0 THEN rest ELSE SubSeq(rest, 1, e - 1)
        c == IF Len(auth) > 0 /\ auth[Len(auth)] = "]" THEN 0
             ELSE LastIndexOf(auth, ":", Len(auth))
        host == IF c = 0 THEN auth ELSE SubSeq(auth, 1, c - 1)
        portRaw == IF c = 0 THEN <<>> ELSE SliceFrom(auth, c + 1)
        t == SplitTail(IF e = 0 THEN <<>> ELSE SliceFrom(rest, e))
    IN  IF \/ ~IsBracketed(host)
              /\ (\E i \in 1..Len(host) : host[i] \in ForbiddenHostChars \ {"%"})
           \/ (\E i \in 1..Len(portRaw) : portRaw[i] \notin DigitSet)
        THEN FailURL
        ELSE [ok |-> TRUE, scheme |-> scheme, hostname |-> host, port |-> portRaw,
              pathname |-> IF Len(t.pathname) = 0 THEN <<>> ELSE NormalizePath(t.pathname),
              opaque |-> FALSE,
              hasQuery |-> t.hasQuery, query |-> t.query, params |-> t.params,
              hasHash |-> t.hasHash, fragment |-> t.fragment]

\* a non-special scheme followed by text that is no authority: an opaque path
ParseOpaque(scheme, rest) ==
    [ok |-> TRUE, scheme |-> scheme, hostname |-> <<>>, port |-> <<>>, opaque |-> TRUE]
    @@ SplitTail(rest)

\* the directory of a path: everything up to and including its last "/"
DirName(path) == SubSeq(path, 1, LastIndexOf(path, "/", Len(path)))

\* base with the path, query and fragment t of a reference applied to it
ResolveReference(t, base) ==
    IF Len(t.pathname) = 0
    THEN [base EXCEPT !.hasQuery = IF t.hasQuery THEN TRUE ELSE base.hasQuery,
                      !.query = IF t.hasQuery THEN t.query ELSE base.query,
                      !.params = IF t.hasQuery THEN t.params ELSE base.params,
                      !.hasHash = t.hasHash, !.fragment = t.fragment]
    ELSE [base EXCEPT !.pathname = IF t.pathname[1] = "/" THEN NormalizePath(t.pathname)
                                   ELSE NormalizePath(DirName(base.pathname) \o t.pathname),
                      !.hasQuery = t.hasQuery, !.query = t.query, !.params = t.params,
                      !.hasHash = t.hasHash, !.fragment = t.fragment]

\* a reference without a scheme, resolved against a special base URL
ParseRelative(s, base) ==
    IF ~base.ok \/ base.opaque THEN FailURL
    ELSE IF startsWith(s, <<"/","/">>) THEN ParseAuthority(base.scheme, SkipSlashes(s))
    ELSE ResolveReference(SplitTail(s), base)

\* the URL of the trimmed text s, whose scheme ends at index i (0: s has no scheme)
ParseScheme(s, i, base) ==
    LET scheme == toLowerCase(SubSeq(s, 1, i - 1))
        rest == SliceFrom(s, i + 1)
        sameScheme == ~startsWith(rest, <<"/","/">>) /\ base.ok /\ base.scheme = scheme
    IN  IF i = 0 \/ (scheme \in SpecialSchemes /\ sameScheme)
        THEN ParseRelative(IF i = 0 THEN s ELSE rest, base)
        ELSE IF scheme \in SpecialSchemes THEN ParseAuthority(scheme, SkipSlashes(rest))
        ELSE IF startsWith(rest, <<"/","/">>) THEN ParseOpaqueHost(scheme, SliceFrom(rest, 3))
        ELSE ParseOpaque(scheme, rest)

\* new URL(input) when base.ok is FALSE, new URL(input, base) otherwise
ParseURL(input, base) == ParseScheme(trim(input), SchemeEnd(trim(input)), base)

\* URL.prototype.toString / href
Href(u) ==
    u.scheme \o <<":">>
    \o (IF u.opaque THEN <<>>
        ELSE <<"/","/">> \o u.hostname \o (IF Len(u.port) > 0 THEN <<":">> \o u.port ELSE <<>>))
    \o u.pathname
    \o (IF u.hasQuery THEN <<"?">> \o u.query ELSE <<>>)
    \o (IF u.hasHash THEN <<"#">> \o u.fragment ELSE <<>>)

\* the getters u.protocol and u.hash
protocol(u) == u.scheme \o <<":">>
hash(u) == IF u.hasHash /\ Len(u.fragment) > 0 THEN <<"#">> \o u.fragment ELSE <<>>

\* u.searchParams as a list of [k, v]
searchParams(u) == u.params

\* the URL after its searchParams list was mutated into list (the "update" steps)
WithParams(u, list) ==
    [u EXCEPT !.hasQuery = Len(list) > 0, !.query = SerializeQuery(list), !.params = list]

\* URLSearchParams.get(name) on a list: a JS value, Null when absent
ListGet(list, name) ==
    IF \E i \in 1..Len(list) : list[i].k = name
    THEN Str(list[CHOOSE i \in 1..Len(list) :
                     list[i].k = name /\ \A j \in 1..(i - 1) : list[j].k # name].v)
    ELSE Null

\* u.searchParams.get(name)
ParamGet(u, name) == ListGet(searchParams(u), name)

RECURSIVE WithoutKey(_, _)
WithoutKey(list, name) ==
    IF Len(list) = 0 THEN <<>>
    ELSE IF list[1].k = name THEN WithoutKey(Tail(list), name)
    ELSE <<list[1]>> \o WithoutKey(Tail(list), name)

\* u.searchParams.delete(name)
ParamDelete(u, name) == WithParams(u, WithoutKey(searchParams(u), name))

\* URLSearchParams.set(name, value) on a list: the first pair of that name takes the
\* value and the others go, or the pair is appended
ListSet(list, name, value) ==
    IF \E i \in 1..Len(list) : list[i].k = name
    THEN LET f == CHOOSE i \in 1..Len(list) :
                      list[i].k = name /\ \A j \in 1..(i - 1) : list[j].k # name
         IN  SubSeq(list, 1, f - 1) \o <<[k |-> name, v |-> value]>>
             \o WithoutKey(SliceFrom(list, f + 1), name)
    ELSE Append(list, [k |-> name, v |-> value])

\* u.searchParams.set(name, value)
ParamSet(u, name, value) == WithParams(u, ListSet(searchParams(u), name, value))

\* the setters u.search = "", u.hash = "", u.port = ""
ClearSearch(u) == [u EXCEPT !.hasQuery = FALSE, !.query = <<>>, !.params = <<>>]
ClearHash(u) == [u EXCEPT !.hasHash = FALSE, !.fragment = <<>>]
ClearPort(u) == [u EXCEPT !.port = <<>>]

\* the setter u.hostname = value (ignored on an opaque path or an invalid host)
SetHostname(u, value) ==
    IF u.opaque \/ Len(value) = 0 \/ (\E i \in 1..Len(value) : value[i] \in ForbiddenHostChars)
    THEN u
    ELSE [u EXCEPT !.hostname = toLowerCase(value)]

\* "?" and "#" in a path assigned through the setter are percent-encoded
EncodePathChars(s) ==
    Concat([i \in 1..Len(s) |->
              IF s[i] = "?" THEN <<"%","3","F">> ELSE IF s[i] = "#" THEN <<"%","2","3">> ELSE <<s[i]>>],
           1, Len(s))

\* the setter u.pathname = value (ignored on an opaque path)
SetPathname(u, value) ==
    IF u.opaque THEN u ELSE [u EXCEPT !.pathname = NormalizePath(EncodePathChars(value))]

-----------------------------------------------------------------------------
(* Rule matcher and blocking predicate: src/src/core/privacy-guard.js      *)

\* the page the script runs in: location.href and location.hostname
LocationHref == <<"h","t","t","p","s",":","/","/","e","x","a","m","p","l","e",".","c","o","m","/","a","p","p","/">>
Location == ParseURL(LocationHref, FailURL)

\* allowlists.js
ALLOWED_SCHEMES ==
    <<<<"b","l","o","b",":">>, <<"d","a","t","a",":">>, <<"c","h","r","o","m","e","-","e","x","t","e","n","s","i","o","n",":">>, <<"a","b","o","u","t",":">>, <<"m","o","z","-","e","x","t","e","n","s","i","o","n",":">>, <<"s","a","f","a","r","i","-","e","x","t","e","n","s","i","o","n",":">>>>

\* the callback of rules.some(...) in urlMatches: "true", "false", or "throw" when
\* rule.pathStartsWith is a truthy non-string (it has no startsWith method)
ruleOutcome(urlObj, rule) ==
    IF ~Truthy(rule.host) THEN "false"
    ELSE IF ~hostnameMatches(urlObj, <<rule.host>>) THEN "false"
    ELSE IF ~Truthy(rule.pathStartsWith) THEN "true"
    ELSE IF rule.pathStartsWith.t # "str" THEN "throw"
    ELSE LET prefix == IF startsWith(rule.pathStartsWith.s, <<"/">>)
                       THEN rule.pathStartsWith.s
                       ELSE <<"/">> \o rule.pathStartsWith.s
         IN  IF startsWith(urlObj.pathname, prefix) THEN "true" ELSE "false"

\* rules.some(...): the outcome of the first rule that does not answer "false"
RECURSIVE urlMatches(_, _)
urlMatches(urlObj, rules) ==
    IF Len(rules) = 0 THEN "false"
    ELSE LET o == ruleOutcome(urlObj, rules[1])
         IN  IF o = "false" THEN urlMatches(urlObj, Tail(rules)) ELSE o

\* hostnameMatches(parsed, hosts) || urlMatches(parsed, rules)
hostOrRuleMatches(parsed, hosts, rules) ==
    IF hostnameMatches(parsed, hosts) THEN "true" ELSE urlMatches(parsed, rules)

\* shouldBlock deciding on the lists as they were when the modules loaded
decideParsed_loadTimeLists(parsed) ==
    IF allowSameOrigin /\ parsed.hostname = Location.hostname THEN "false"
    ELSE hostOrRuleMatches(parsed, <<Str(<<"d","o","u","b","l","e","c","l","i","c","k",".","n","e","t">>)>>, <<>>)

\* the body of shouldBlock once the URL has parsed
decideParsed(parsed) ==
    LET allowed == hostOrRuleMatches(parsed, ALLOWED_HOSTS, ALLOWED_RULES)
    IN  IF allowed = "throw" THEN "throw"
        ELSE IF allowed = "true" THEN "false"
        ELSE IF allowSameOrigin /\ parsed.hostname = Location.hostname THEN "false"
        ELSE hostOrRuleMatches(parsed, BLOCKED_HOSTS, BLOCKED_RULES)

\* shouldBlock answering true for a string the URL parser rejects
shouldBlock_failClosed(url) ==
    IF ~Truthy(url) THEN "false"
    ELSE LET urlString == String(url)
         IN  IF \E i \in 1..Len(ALLOWED_SCHEMES) : startsWith(urlString, ALLOWED_SCHEMES[i])
             THEN "false"
             ELSE LET parsed == ParseURL(urlString, Location)
                  IN  IF parsed.ok THEN decideParsed(parsed) ELSE "true"

\* shouldBlock without the loop over ALLOWED_SCHEMES
shouldBlock_schemesParsed(url) ==
    IF ~Truthy(url) THEN "false"
    ELSE LET parsed == ParseURL(String(url), Location)
         IN  IF parsed.ok THEN decideParsed(parsed) ELSE "false"

\* PrivacyGuard.shouldBlock(url): "true", "false", or "throw"
shouldBlock(url) ==
    IF ~Truthy(url) THEN "false"
    ELSE LET urlString == String(url)
         IN  IF \E i \in 1..Len(ALLOWED_SCHEMES) : startsWith(urlString, ALLOWED_SCHEMES[i])
             THEN "false"
             ELSE LET parsed == ParseURL(urlString, Location)
                  IN  IF parsed.ok THEN decideParsed(parsed) ELSE "false"

-----------------------------------------------------------------------------
(* The pattern collections at run time and the calls of shouldBlock.       *)

\* at most this many entries in the four collections together
MaxEntries == 2

\* host patterns a caller may append (settings UI, tests)
HostPatterns ==
    {Str(<<"a","m","p","l","e",".","c","o","m">>), Str(<<"x",".","c","o">>), Str(<<"c","o","m">>), Str(<<"*",".","e","x","a","m","p","l","e",".","c","o","m">>),
     Str(<<" ","E","x","a","m","p","l","e",".","C","O","M","."," ">>), Null,
     Str(<<>>), Str(<<"*">>), Str(<<".","e","x","a","m","p","l","e",".","c","o","m">>), Str(<<".",".">>), Str(<<" ","."," ">>),
     Str(<<"*",".","*",".","e","x","a","m","p","l","e",".","c","o","m">>), Str(<<"*","*",".","e","x","a","m","p","l","e",".","c","o","m">>), Str(<<"*",".",".","e","x","a","m","p","l","e",".","c","o","m">>),
     Str(<<"9","3",".","1","8","4",".","2","1","6",".","3","4">>), Str(<<"2","1","6",".","3","4">>), Str(<<"[","2","0","0","1",":","d","b","8",":",":","1","]">>), Str(<<"*",".","c","o","m">>)}

AllowHostPatterns == {Str(<<"a","m","p","l","e",".","c","o","m">>), Str(<<"s","u","b",".","x",".","c","o">>)}

\* rules a caller may append; pathStartsWith may be absent, and nothing checks its type
RuleSet ==
    {[host |-> Str(<<"e","x","a","m","p","l","e",".","c","o","m">>), pathStartsWith |-> Str(<<"/","g","a">>)],
     [host |-> Str(<<"x",".","c","o">>), pathStartsWith |-> Str(<<"g","a">>)],
     [host |-> Str(<<"a","m","p","l","e",".","c","o","m">>), pathStartsWith |-> Null],
     [host |-> Str(<<"e","x","a","m","p","l","e",".","c","o","m">>), pathStartsWith |-> Num(<<"4","2">>)]}

AllowRuleSet ==
    {[host |-> Str(<<"e","x","a","m","p","l","e",".","c","o","m">>), pathStartsWith |-> Str(<<"/","g","a","/","o","k">>)],
     [host |-> Str(<<"x",".","c","o">>), pathStartsWith |-> Null],
     [host |-> Str(<<"e","x","a","m","p","l","e",".","c","o","m">>), pathStartsWith |-> Num(<<"4","2">>)]}

\* hosts, paths and query strings of the URLs handed to shouldBlock
UrlHosts ==
    {<<"e","x","a","m","p","l","e",".","c","o","m">>, <<"t","e","s","t","a","m","p","l","e",".","c","o","m">>, <<"a","m","p","l","e",".","c","o","m">>, <<"s","u","b",".","a","m","p","l","e",".","c","o","m">>,
     <<"x",".","c","o">>, <<"t","a","x",".","c","o">>, <<"s","u","b",".","x",".","c","o">>, <<"S","u","b",".","E","x","a","m","p","l","e",".","C","o","M",".">>, <<"a","d","s",".","d","o","u","b","l","e","c","l","i","c","k",".","n","e","t">>}

UrlPaths == {<<"/","g","a","/","o","k","/","x">>, <<"/","p","a","g","e">>}

UrlQueries == {<<>>, <<"?","n","e","x","t","=","h","t","t","p","s",":","/","/","a","m","p","l","e",".","c","o","m","/","g","a","/","o","k">>}

\* the arguments of shouldBlock: absolute URLs, a relative reference, schemes without
\* a host, an unparsable string, null
BlockInputs ==
    {Str(<<"h","t","t","p","s",":","/","/">> \o h \o p \o q) : h \in UrlHosts, p \in UrlPaths, q \in UrlQueries}
    \cup {Str(<<"/","g","a","/","x","?","u","=","x",".","c","o">>), Str(<<"d","a","t","a",":","t","e","x","t","/","p","l","a","i","n",",","h","e","l","l","o">>), Str(<<"a","b","o","u","t",":","b","l","a","n","k">>),
          Str(<<"f","i","l","e","s","y","s","t","e","m",":","h","t","t","p","s",":","/","/","a","m","p","l","e",".","c","o","m","/","f">>), Str(<<"h","t","t","p","s",":","/","/">>), Str(<<>>), Null}
    \cup {Str(<<"h","t","t","p","s",":","/","/","a",".","b",".","e","x","a","m","p","l","e",".","c","o","m","/","p","a","g","e">>),
          Str(<<"h","t","t","p","s",":","/","/","9","3",".","1","8","4",".","2","1","6",".","3","4","/","r","e","s","o","u","r","c","e">>), Str(<<"h","t","t","p","s",":","/","/","[","2","0","0","1",":","d","b","8",":",":","1","]","/","r","e","s","o","u","r","c","e">>),
          Str(<<"h","t","t","p","s",":","/","/","*","*",".","e","x","a","m","p","l","e",".","c","o","m","/","a">>), Str(<<"h","t","t","p","s",":","/","/","*",".","e","x","a","m","p","l","e",".","c","o","m","/","a">>),
          Str(<<"h","t","t","p","s",":","/","/","a",".",".","e","x","a","m","p","l","e",".","c","o","m","/","a">>),
          Str(<<"h","t","t","p","s",":","/","/","a","m","p","l","e",".","c","o","m",":","x","/","p","a","g","e">>), Str(<<"m","o","z","-","e","x","t","e","n","s","i","o","n",":","/","/","a","m","p","l","e",".","c","o","m","/","p","a","g","e">>)}

Entries == Len(BLOCKED_HOSTS) + Len(BLOCKED_RULES) + Len(ALLOWED_HOSTS) + Len(ALLOWED_RULES)

\* BLOCKED_HOSTS.push(p)
PushBlockedHost ==
    /\ Entries < MaxEntries
    /\ \E p \in HostPatterns : BLOCKED_HOSTS' = Append(BLOCKED_HOSTS, p)
    /\ blockUrl' = Null /\ blockResult' = "none"
    /\ UNCHANGED <<BLOCKED_RULES, ALLOWED_HOSTS, ALLOWED_RULES, allowSameOrigin, cleanVars, pageVars>>

\* BLOCKED_HOSTS.pop()
PopBlockedHost ==
    /\ Len(BLOCKED_HOSTS) > 0
    /\ BLOCKED_HOSTS' = SubSeq(BLOCKED_HOSTS, 1, Len(BLOCKED_HOSTS) - 1)
    /\ blockUrl' = Null /\ blockResult' = "none"
    /\ UNCHANGED <<BLOCKED_RULES, ALLOWED_HOSTS, ALLOWED_RULES, allowSameOrigin, cleanVars, pageVars>>

\* BLOCKED_RULES.push(r)
PushBlockedRule ==
    /\ Entries < MaxEntries
    /\ \E r \in RuleSet : BLOCKED_RULES' = Append(BLOCKED_RULES, r)
    /\ blockUrl' = Null /\ blockResult' = "none"
    /\ UNCHANGED <<BLOCKED_HOSTS, ALLOWED_HOSTS, ALLOWED_RULES, allowSameOrigin, cleanVars, pageVars>>

\* BLOCKED_RULES.pop()
PopBlockedRule ==
    /\ Len(BLOCKED_RULES) > 0
    /\ BLOCKED_RULES' = SubSeq(BLOCKED_RULES, 1, Len(BLOCKED_RULES) - 1)
    /\ blockUrl' = Null /\ blockResult' = "none"
    /\ UNCHANGED <<BLOCKED_HOSTS, ALLOWED_HOSTS, ALLOWED_RULES, allowSameOrigin, cleanVars, pageVars>>

\* ALLOWED_HOSTS.push(p)
PushAllowedHost ==
    /\ Entries < MaxEntries
    /\ \E p \in AllowHostPatterns : ALLOWED_HOSTS' = Append(ALLOWED_HOSTS, p)
    /\ blockUrl' = Null /\ blockResult' = "none"
    /\ UNCHANGED <<BLOCKED_HOSTS, BLOCKED_RULES, ALLOWED_RULES, allowSameOrigin, cleanVars, pageVars>>

\* ALLOWED_HOSTS.pop()
PopAllowedHost ==
    /\ Len(ALLOWED_HOSTS) > 0
    /\ ALLOWED_HOSTS' = SubSeq(ALLOWED_HOSTS, 1, Len(ALLOWED_HOSTS) - 1)
    /\ blockUrl' = Null /\ blockResult' = "none"
    /\ UNCHANGED <<BLOCKED_HOSTS, BLOCKED_RULES, ALLOWED_RULES, allowSameOrigin, cleanVars, pageVars>>

\* ALLOWED_RULES.push(r)
PushAllowedRule ==
    /\ Entries < MaxEntries
    /\ \E r \in AllowRuleSet : ALLOWED_RULES' = Append(ALLOWED_RULES, r)
    /\ blockUrl' = Null /\ blockResult' = "none"
    /\ UNCHANGED <<BLOCKED_HOSTS, BLOCKED_RULES, ALLOWED_HOSTS, allowSameOrigin, cleanVars, pageVars>>

\* ALLOWED_RULES.pop()
PopAllowedRule ==
    /\ Len(ALLOWED_RULES) > 0
    /\ ALLOWED_RULES' = SubSeq(ALLOWED_RULES, 1, Len(ALLOWED_RULES) - 1)
    /\ blockUrl' = Null /\ blockResult' = "none"
    /\ UNCHANGED <<BLOCKED_HOSTS, BLOCKED_RULES, ALLOWED_HOSTS, allowSameOrigin, cleanVars, pageVars>>

\* CONFIG.allowSameOrigin = value (settings panel, per-site overrides)
SetAllowSameOrigin ==
    /\ allowSameOrigin' = ~allowSameOrigin
    /\ blockUrl' = Null /\ blockResult' = "none"
    /\ UNCHANGED <<BLOCKED_HOSTS, BLOCKED_RULES, ALLOWED_HOSTS, ALLOWED_RULES, cleanVars, pageVars>>

\* an interception adapter calls PrivacyGuard.shouldBlock(url)
ShouldBlock ==
    /\ blockResult = "none"
    /\ \E url \in BlockInputs :
         /\ blockUrl' = url
         /\ blockResult' = shouldBlock(url)
    /\ UNCHANGED <<BLOCKED_HOSTS, BLOCKED_RULES, ALLOWED_HOSTS, ALLOWED_RULES,
                   allowSameOrigin, cleanVars, pageVars>>

\* the state after the modules are loaded: the static lists (blocklist.js and
\* allowlists.js; of the blocklist, one host and no rule are kept), CONFIG as shipped
InitBlock ==
    /\ BLOCKED_HOSTS = <<Str(<<"d","o","u","b","l","e","c","l","i","c","k",".","n","e","t">>)>>
    /\ BLOCKED_RULES = <<>>
    /\ ALLOWED_HOSTS = <<>>
    /\ ALLOWED_RULES = <<>>
    /\ allowSameOrigin = FALSE
    /\ blockUrl = Null
    /\ blockResult = "none"

InitClean ==
    /\ cleanInput = Null
    /\ cleanOutput = [threw |-> FALSE, value |-> Null]
    /\ cleanCalls = 0

\* the page before any request: MODE as shipped (config.js), nothing opened or sent
InitNet ==
    /\ networkBlock = "fail"
    /\ xhrStored = Null /\ xhrTarget = Null /\ xhrReady = "unsent"
    /\ xhrNativeSends = {} /\ xhrMicrotasks = 0 /\ xhrSends = 0
    /\ fetchNative = {} /\ fetchOutcome = "none"

\* the page before PrivacyGuard.init(): Element.prototype.setAttribute is the native
\* function, the image-pixel feature is on in STATE and its blocker is not enabled
InitHooks ==
    /\ initialized = FALSE
    /\ imgPixels = TRUE
    /\ imgEnabled = FALSE
    /\ origSetAttribute = <<>>
    /\ setAttribute = <<"native">>
    /\ nativeSetAttribute = {} /\ scriptSrcSet = {} /\ neutralized = 0

\* the nodes a page builds and inserts: a container, a script and an iframe that
\* load from a tracker, a script of the page's own site
Containers == {"div"}
Leaves == {"script", "iframe", "module"}
Nodes == Containers \cup Leaves

\* the document when observeDOMChanges starts observing: none of the nodes is built
InitDom ==
    /\ domParent = [n \in Nodes |-> "none"]
    /\ records = <<>>
    /\ pending = <<>>
    /\ scheduled = FALSE
    /\ lastRoots = {}

\* the page's anchor sits in a wrapper element and points at a tracker; the runtime
\* has not seen it
InitRuntime ==
    /\ anchorHref = Str(<<"h","t","t","p","s",":","/","/","a","d","s",".","d","o","u","b","l","e","c","l","i","c","k",".","n","e","t","/","c","l","i","c","k","?","i","d","=","1">>)
    /\ pgBlock = FALSE /\ pgCleaned = FALSE
    /\ rtRecords = <<>> /\ rtBatches = 0
    /\ held = FALSE /\ recleanDue = FALSE /\ wasCleaned = FALSE
    /\ clickResult = [type |-> "none", prevented |-> TRUE, href |-> Null, held |-> FALSE]

\* STORAGE.get returns null for a host without a stored entry
NoOverrides ==
    [present |-> FALSE, enabled |-> FALSE, networkBlock |-> "fail",
     scriptBlockMode |-> "createElement", allowSameOrigin |-> FALSE]

\* CONFIG as shipped (config.js), no entry stored for the host
InitConfig ==
    /\ scriptBlockMode = "createElement"
    /\ overrides = NoOverrides
    /\ overridesApplied = TRUE

Init ==
    InitBlock /\ InitClean /\ InitNet /\ InitHooks /\ InitDom /\ InitRuntime /\ InitConfig

NextBlock ==
    \/ PushBlockedHost
    \/ PopBlockedHost
    \/ PushBlockedRule
    \/ PopBlockedRule
    \/ PushAllowedHost
    \/ PopAllowedHost
    \/ PushAllowedRule
    \/ PopAllowedRule
    \/ SetAllowSameOrigin
    \/ ShouldBlock

\* the blocking predicate under run-time changes of the collections
Spec == Init /\ [][NextBlock]_vars

-----------------------------------------------------------------------------
(* URL cleaner: src/unnamed/part_012 (url/cleaner.js), lines 1-558.        *)

JAVASCRIPT_PROTOCOL == <<"j","a","v","a","s","c","r","i","p","t",":">>

GLOBAL_STRIP ==
    {<<"u","t","m","_","s","o","u","r","c","e">>, <<"u","t","m","_","m","e","d","i","u","m">>, <<"u","t","m","_","c","a","m","p","a","i","g","n">>, <<"u","t","m","_","t","e","r","m">>, <<"u","t","m","_","c","o","n","t","e","n","t">>, <<"u","t","m","_","i","d">>,
     <<"u","t","m","_","n","a","m","e">>, <<"u","t","m","_","r","e","a","d","e","r">>, <<"u","t","m","_","b","r","a","n","d">>, <<"u","t","m","_","s","o","c","i","a","l">>, <<"u","t","m","_","v","i","z","_","i","d">>,
     <<"g","c","l","i","d">>, <<"d","c","l","i","d">>, <<"m","s","c","l","k","i","d">>, <<"f","b","c","l","i","d">>, <<"t","w","c","l","i","d">>, <<"i","g","s","h","i","d">>, <<"v","e","r","o","_","i","d">>, <<"m","c","_","e","i","d">>,
     <<"s","p","m">>, <<"s","c","_","c","i","d">>, <<"s","_","c","i","d">>, <<"p","k","_","c","a","m","p","a","i","g","n">>, <<"p","k","_","k","w","d">>,
     <<"r","e","f","e","r","r","e","r">>, <<"r","e","f","_","s","r","c">>, <<"r","e","f","_","u","r","l">>, <<"s","o","u","r","c","e">>, <<"c","m","p">>, <<"c","a","m","p","a","i","g","n">>, <<"a","d","i","d">>, <<"a","d">>, <<"c","i","d">>,
     <<"_","h","s","e","n","c">>, <<"_","h","s","m","i">>, <<"o","l","y","_","a","n","o","n","_","i","d">>, <<"o","l","y","_","e","n","c","_","i","d">>, <<"m","k","t","_","t","o","k">>, <<"a","l","g","o","_","p","v","i","d">>, <<"a","l","g","o","_","e","x","p","_","i","d">>}

\* REDIRECTORS with FEATURES.extraRedirectors = true (config.js); pathHas <<>> = absent
REDIRECTORS ==
    <<[hostIncludes |-> <<"l",".","f","a","c","e","b","o","o","k",".","c","o","m">>, pathHas |-> <<>>, param |-> <<<<"u">>, <<"u","r","l">>>>],
      [hostIncludes |-> <<"l","m",".","f","a","c","e","b","o","o","k",".","c","o","m">>, pathHas |-> <<>>, param |-> <<<<"u">>, <<"u","r","l">>>>],
      [hostIncludes |-> <<"o","u","t",".","r","e","d","d","i","t",".","c","o","m">>, pathHas |-> <<>>, param |-> <<<<"u","r","l">>>>],
      [hostIncludes |-> <<"t",".","c","o">>, pathHas |-> <<>>, param |-> <<<<"u","r","l">>>>],
      [hostIncludes |-> <<"g","o","o","g","l","e",".","c","o","m">>, pathHas |-> <<"/","u","r","l">>, param |-> <<<<"q">>, <<"u","r","l">>, <<"u">>>>],
      [hostIncludes |-> <<"n","e","w","s",".","g","o","o","g","l","e">>, pathHas |-> <<"/","a","r","t","i","c","l","e","s">>, param |-> <<<<"u","r","l">>>>],
      [hostIncludes |-> <<"y","o","u","t","u","b","e",".","c","o","m">>, pathHas |-> <<"/","r","e","d","i","r","e","c","t">>, param |-> <<<<"q">>, <<"u","r","l">>, <<"u">>>>],
      [hostIncludes |-> <<"y","o","u","t","u",".","b","e">>, pathHas |-> <<>>, param |-> <<<<"q">>, <<"u","r","l">>>>],
      [hostIncludes |-> <<"l",".","i","n","s","t","a","g","r","a","m",".","c","o","m">>, pathHas |-> <<>>, param |-> <<<<"u">>, <<"u","r","l">>>>],
      [hostIncludes |-> <<"l","n","k","d",".","i","n">>, pathHas |-> <<>>, param |-> <<<<"u","r","l">>>>],
      [hostIncludes |-> <<"l","i","n","k","e","d","i","n",".","c","o","m">>, pathHas |-> <<"/","r","e","d","i","r","/","r","e","d","i","r","e","c","t">>, param |-> <<<<"u","r","l">>>>],
      [hostIncludes |-> <<"b","i","n","g",".","c","o","m">>, pathHas |-> <<"/","c","k","/","a">>, param |-> <<<<"u">>, <<"u","r","l">>>>],
      [hostIncludes |-> <<"r","2","0",".","r","s","6",".","n","e","t">>, pathHas |-> <<>>, param |-> <<<<"u","r","l">>>>],
      [hostIncludes |-> <<"s","a","f","e","l","i","n","k","s",".","p","r","o","t","e","c","t","i","o","n",".","o","u","t","l","o","o","k",".","c","o","m">>, pathHas |-> <<>>,
       param |-> <<<<"u","r","l">>>>]>>

\* the keys of u.searchParams, in order
ParamKeys(u) == [i \in 1..Len(searchParams(u)) |-> searchParams(u)[i].k]

isYouTubeRedirectPath(u) == u.pathname = <<"/","r","e","d","i","r","e","c","t">>

\* start of the leftmost match of /(?:^|[#&])t=([^&]+)/ in h, or 0
HashTimeAt(h) ==
    LET ok(i) == \/ i = 1 /\ OccursAt(h, <<"t","=">>, 1) /\ Len(h) >= 3 /\ h[3] # "&"
                 \/ /\ h[i] \in {"#", "&"}
                    /\ OccursAt(h, <<"t","=">>, i + 1)
                    /\ Len(h) >= i + 3 /\ h[i + 3] # "&"
    IN  IF \E i \in 1..Len(h) : ok(i)
        THEN CHOOSE i \in 1..Len(h) : ok(i) /\ \A j \in 1..(i - 1) : ~ok(j)
        ELSE 0

extractYouTubeTimeFromHash(h) ==
    IF Len(h) = 0 \/ HashTimeAt(h) = 0 THEN <<>>
    ELSE LET i == HashTimeAt(h)
             from == IF OccursAt(h, <<"t","=">>, i) THEN i + 2 ELSE i + 3
             amp == IndexOfAny(h, {"&"}, from)
         IN  SubSeq(h, from, IF amp = 0 THEN Len(h) ELSE amp - 1)

\* a || b for strings held as JS values: the result as a string ("" when both are falsy)
OrElse(v, fallback) == IF Truthy(v) THEN v.s ELSE fallback

\* the context with the fragment's time taken before the query's
collectYouTubePlaybackContext_hashFirst(u) ==
    [canonicalTime |-> OrElse(Str(extractYouTubeTimeFromHash(hash(u))),
                              OrElse(ParamGet(u, <<"t">>), <<>>)),
     startParam |-> ParamGet(u, <<"s","t","a","r","t">>),
     playlistId |-> ParamGet(u, <<"l","i","s","t">>),
     playlistIndex |-> ParamGet(u, <<"i","n","d","e","x">>)]

collectYouTubePlaybackContext(u) ==
    [canonicalTime |-> OrElse(ParamGet(u, <<"t">>), extractYouTubeTimeFromHash(hash(u))),
     startParam |-> ParamGet(u, <<"s","t","a","r","t">>),
     playlistId |-> ParamGet(u, <<"l","i","s","t">>),
     playlistIndex |-> ParamGet(u, <<"i","n","d","e","x">>)]

applyYouTubePlaybackParams(u, context) ==
    LET u1 == IF Truthy(context.playlistId) THEN ParamSet(u, <<"l","i","s","t">>, context.playlistId.s) ELSE u
        u2 == IF Truthy(context.playlistIndex)
              THEN ParamSet(u1, <<"i","n","d","e","x">>, context.playlistIndex.s) ELSE u1
    IN  IF Len(context.canonicalTime) > 0 THEN ParamSet(u2, <<"t">>, context.canonicalTime)
        ELSE IF Truthy(context.startParam) THEN ParamSet(u2, <<"s","t","a","r","t">>, context.startParam.s)
        ELSE u2

transformToYouTubeWatch(u, videoId, context) ==
    IF Len(videoId) = 0 THEN u
    ELSE LET u1 == SetHostname(u, <<"w","w","w",".","y","o","u","t","u","b","e",".","c","o","m">>)
             u2 == SetPathname(u1, <<"/","w","a","t","c","h">>)
             u3 == ClearSearch(u2)
             u4 == ParamSet(u3, <<"v">>, videoId)
             u5 == applyYouTubePlaybackParams(u4, context)
         IN  ClearHash(u5)

\* the match of /^\/(shorts|embed)\/([^/?#]+)/ on a pathname: [ok, section, resourceId]
SpecialPathMatch(p) ==
    LET section == IF startsWith(p, <<"/","s","h","o","r","t","s","/">>) THEN <<"s","h","o","r","t","s">>
                   ELSE IF startsWith(p, <<"/","e","m","b","e","d","/">>) THEN <<"e","m","b","e","d">> ELSE <<>>
        rest == SliceFrom(p, Len(section) + 3)
        stop == IndexOfAny(rest, {"/", "?", "#"}, 1)
        resourceId == IF stop = 0 THEN rest ELSE SubSeq(rest, 1, stop - 1)
    IN  IF Len(section) = 0 \/ Len(resourceId) = 0
        THEN [ok |-> FALSE, section |-> <<>>, resourceId |-> <<>>]
        ELSE [ok |-> TRUE, section |-> section, resourceId |-> resourceId]

\* normalizeYouTubeSpecialPaths once the path is matched: m is embedOrShortsMatch
rewriteSpecialPath(u, m) ==
    LET isEmbed == m.section = <<"e","m","b","e","d">>
        u1 == IF isEmbed THEN SetHostname(u, <<"w","w","w",".","y","o","u","t","u","b","e",".","c","o","m">>) ELSE u
        playlistId == ParamGet(u1, <<"l","i","s","t">>)
    IN  IF u.pathname = <<"/","w","a","t","c","h">> THEN [done |-> FALSE, u |-> u]
        ELSE IF ~m.ok THEN [done |-> FALSE, u |-> u]
        ELSE IF isEmbed /\ m.resourceId = <<"v","i","d","e","o","s","e","r","i","e","s">>
        THEN [done |-> TRUE,
              u |-> IF Truthy(playlistId)
                    THEN ClearHash(ParamSet(ClearSearch(SetPathname(u1, <<"/","p","l","a","y","l","i","s","t">>)),
                                            <<"l","i","s","t">>, playlistId.s))
                    ELSE u1]
        ELSE [done |-> TRUE,
              u |-> transformToYouTubeWatch(u1, m.resourceId, collectYouTubePlaybackContext(u1))]

\* [done |-> the boolean returned, u |-> the URL as left by the call]
normalizeYouTubeSpecialPaths(u) == rewriteSpecialPath(u, SpecialPathMatch(u.pathname))

\* array.filter(Boolean) on a list of strings
RECURSIVE NonEmpty(_)
NonEmpty(parts) ==
    IF Len(parts) = 0 THEN <<>>
    ELSE IF Len(parts[1]) = 0 THEN NonEmpty(Tail(parts))
    ELSE <<parts[1]>> \o NonEmpty(Tail(parts))

extractShortVideoId(u) ==
    LET segments == NonEmpty(split(u.pathname, "/"))
    IN  IF Len(segments) = 0 THEN <<>>
        ELSE IF segments[1] = <<"s","h","o","r","t","s">> /\ Len(segments) >= 2 THEN segments[2]
        ELSE segments[1]

LikelyIdMinLen == 5

isLikelyYouTubeId(id) == Len(id) > LikelyIdMinLen

isParamAllowed(key, keyLC, allowlist, preserveCase) ==
    IF preserveCase THEN key \in allowlist ELSE keyLC \in allowlist

isAmazonNoiseKey(keyLC, value) ==
    IF value = <<>> THEN TRUE
    ELSE \/ keyLC = <<"r","e","f">>
         \/ keyLC = <<"r","e","f","_","s","r","c">>
         \/ keyLC = <<"r","e","f","_","u","r","l">>
         \/ startsWith(keyLC, <<"r","e","f","_">>)
         \/ keyLC = <<"_","e","n","c","o","d","i","n","g">>
         \/ startsWith(keyLC, <<"p","f","_","r","d","_">>)
         \/ startsWith(keyLC, <<"p","d","_","r","d","_">>)
         \/ keyLC = <<"c","o","n","t","e","n","t","-","i","d">>

shouldStripParam(key, value, allowlist, preserveCase) ==
    LET keyLC == toLowerCase(key)
    IN  IF isParamAllowed(key, keyLC, allowlist, preserveCase) THEN FALSE
        ELSE IF keyLC \in GLOBAL_STRIP \/ startsWith(keyLC, <<"u","t","m","_">>) THEN TRUE
        ELSE isAmazonNoiseKey(keyLC, value)

matchesRedirectRule(rule, host, path) ==
    includes(host, rule.hostIncludes) /\ (Len(rule.pathHas) = 0 \/ includes(path, rule.pathHas))

\* a || b on URL objects, null being a record with ok = FALSE
OrURL(a, b) == IF a.ok THEN a ELSE b

\* value is what searchParams.get returned; the result is a URL record, ok = FALSE for null
parseRedirectTarget(value) ==
    IF ~Truthy(value) THEN FailURL
    ELSE OrURL(ParseURL(value.s, FailURL),
               IF MalformedPercent(value.s) THEN FailURL
               ELSE ParseURL(PercentDecode(value.s), FailURL))

\* what a loop that returns the first non-null of targets returns, null after the last
FirstOk(targets) ==
    IF \E i \in 1..Len(targets) : targets[i].ok
    THEN targets[CHOOSE i \in 1..Len(targets) :
                    targets[i].ok /\ \A j \in 1..(i - 1) : ~targets[j].ok]
    ELSE FailURL

FirstTarget(u, names) ==
    FirstOk([i \in 1..Len(names) |-> parseRedirectTarget(ParamGet(u, names[i]))])

extractRedirectTarget(u, rule) == FirstTarget(u, rule.param)

\* for (const rule of REDIRECTORS): a rule that does not match is skipped
FirstRedirect(u, host, path, rules) ==
    FirstOk([i \in 1..Len(rules) |->
               IF matchesRedirectRule(rules[i], host, path)
               THEN extractRedirectTarget(u, rules[i]) ELSE FailURL])

\* the inner URL, or ok = FALSE for null
resolveRedirector(u) == FirstRedirect(u, toLowerCase(u.hostname), u.pathname, REDIRECTORS)

\* s.replaceAll(/\/ref=[^/]+/gi, "")
RECURSIVE RemoveRefSegments(_)
RemoveRefSegments(s) ==
    IF Len(s) = 0 THEN <<>>
    ELSE IF /\ Len(s) >= 6
            /\ toLowerCase(SubSeq(s, 1, 5)) = <<"/","r","e","f","=">>
            /\ s[6] # "/"
         THEN LET stop == IndexOfAny(s, {"/"}, 6)
              IN  IF stop = 0 THEN <<>> ELSE RemoveRefSegments(SliceFrom(s, stop))
         ELSE <<s[1]>> \o RemoveRefSegments(Tail(s))

\* /(?:^|\.)amazon\./i.test(hostname)
isAmazonLikeHost(hostname) ==
    LET h == toLowerCase(hostname)
    IN  startsWith(h, <<"a","m","a","z","o","n",".">>) \/ includes(h, <<".","a","m","a","z","o","n",".">>)

\* the entries of list whose key is not one of keys
RECURSIVE WithoutKeys(_, _)
WithoutKeys(list, keys) ==
    IF Len(list) = 0 THEN <<>>
    ELSE IF list[1].k \in keys THEN WithoutKeys(Tail(list), keys)
    ELSE <<list[1]>> \o WithoutKeys(Tail(list), keys)

\* for (const key of toDelete) params.delete(key)
DeleteKeys(u, toDelete) ==
    IF toDelete = {} THEN u ELSE WithParams(u, WithoutKeys(searchParams(u), toDelete))

\* Remove Amazon-only "/ref=" path segments
stripRefSegments(u) ==
    IF isAmazonLikeHost(u.hostname) THEN SetPathname(u, RemoveRefSegments(u.pathname)) ELSE u

\* Drop dangling '?' if nothing remains
dropDanglingQuery(u) == IF Len(ParamKeys(u)) = 0 THEN ClearSearch(u) ELSE u

stripParams(u, allowlist, preserveCase) ==
    LET params == searchParams(u)
        toDelete == {params[i].k : i \in {j \in 1..Len(params) :
                        shouldStripParam(params[j].k, params[j].v, allowlist, preserveCase)}}
    IN  dropDanglingQuery(stripRefSegments(DeleteKeys(u, toDelete)))

isAppsFlyerHost(host) ==
    IF Len(host) = 0 THEN FALSE
    ELSE \/ host = <<"a","p","p","s","f","l","y","e","r",".","c","o","m">>
         \/ endsWith(host, <<".","a","p","p","s","f","l","y","e","r",".","c","o","m">>)
         \/ host = <<"o","n","e","l","i","n","k",".","m","e">>
         \/ endsWith(host, <<".","o","n","e","l","i","n","k",".","m","e">>)

cleanAppsflyer(u) ==
    LET params == searchParams(u)
        drop(key) == LET lower == toLowerCase(key)
                     IN  \/ lower = <<"p","i","d">>
                         \/ lower = <<"c">>
                         \/ lower = <<"d","e","e","p","_","l","i","n","k","_","v","a","l","u","e">>
                         \/ startsWith(lower, <<"a","f","_">>)
        toDelete == {params[i].k : i \in {j \in 1..Len(params) : drop(params[j].k)}}
    IN  dropDanglingQuery(DeleteKeys(u, toDelete))

AsinLen == 10

\* the capture of /<prefix>([A-Z0-9]{10})/i in p (leftmost match), or <<>>
AsinAfter(p, prefix) ==
    LET ok(i) == /\ OccursAt(toLowerCase(p), prefix, i)
                 /\ i + Len(prefix) + AsinLen - 1 <= Len(p)
                 /\ \A j \in (i + Len(prefix))..(i + Len(prefix) + AsinLen - 1) : p[j] \in AlnumSet
    IN  IF \E i \in 1..Len(p) : ok(i)
        THEN LET i == CHOOSE i \in 1..Len(p) : ok(i) /\ \A j \in 1..(i - 1) : ~ok(j)
             IN  SubSeq(p, i + Len(prefix), i + Len(prefix) + AsinLen - 1)
        ELSE <<>>

\* the early return of cleanAmazon: auth, checkout, cart, internal, video, sponsored
isAmazonSensitivePath(p) ==
    \/ startsWith(p, <<"/","a","p","/">>)
    \/ startsWith(p, <<"/","g","p","/","b","u","y","/">>)
    \/ startsWith(p, <<"/","c","a","r","t","/">>)
    \/ startsWith(p, <<"/","h","z","/">>)
    \/ startsWith(p, <<"/","g","p","/","v","i","d","e","o","/">>)
    \/ startsWith(p, <<"/","s","s","p","a","/">>)

AmazonAllowed == {<<"k">>, <<"r","h">>, <<"b","b","n">>, <<"i">>, <<"n","o","d","e">>}

cleanAmazon(u) ==
    LET p == u.pathname
        m1 == AsinAfter(p, <<"/","d","p","/">>)
        m2 == AsinAfter(p, <<"/","g","p","/","p","r","o","d","u","c","t","/">>)
        m3 == AsinAfter(p, <<"/","g","p","/","a","w","/","d","/">>)
        asinMatch == IF Len(m1) > 0 THEN m1 ELSE IF Len(m2) > 0 THEN m2 ELSE m3
    IN  IF isAmazonSensitivePath(p) THEN u
        ELSE IF Len(asinMatch) > 0
        THEN ClearHash(ClearSearch(SetPathname(u, <<"/","d","p","/">> \o toUpperCase(asinMatch))))
        ELSE stripParams(u, AmazonAllowed, FALSE)

YouTubeAllowed == {<<"v">>, <<"t">>, <<"s","t","a","r","t">>, <<"l","i","s","t">>, <<"i","n","d","e","x">>}
YouTubeShareParams == <<<<"s","i">>, <<"p","p">>, <<"f","e","a","t","u","r","e">>, <<"a","b","_","c","h","a","n","n","e","l">>, <<"s","t","a","r","t","_","r","a","d","i","o">>>>

RECURSIVE DeleteAll(_, _)
DeleteAll(u, names) ==
    IF Len(names) = 0 THEN u ELSE DeleteAll(ParamDelete(u, names[1]), Tail(names))

sanitizeYouTubeWatch(u) ==
    SetHostname(DeleteAll(stripParams(u, YouTubeAllowed, FALSE), YouTubeShareParams),
                <<"w","w","w",".","y","o","u","t","u","b","e",".","c","o","m">>)

\* cleanYouTube after normalizeYouTubeSpecialPaths returned n
sanitizeIfWatch(n) ==
    IF n.done THEN n.u
    ELSE IF n.u.pathname = <<"/","w","a","t","c","h">> THEN sanitizeYouTubeWatch(n.u)
    ELSE n.u

cleanYouTube(u) ==
    IF isYouTubeRedirectPath(u) THEN u ELSE sanitizeIfWatch(normalizeYouTubeSpecialPaths(u))

cleanYouTubeShort(u) ==
    LET videoId == extractShortVideoId(u)
    IN  IF ~isLikelyYouTubeId(videoId) THEN u
        ELSE transformToYouTubeWatch(u, videoId, collectYouTubePlaybackContext(u))

EbayAllowed ==
    {<<"_","n","k","w">>, <<"_","s","o","p">>, <<"_","u","d","l","o">>, <<"_","u","d","h","i">>, <<"_","p","g","n">>, <<"r","t">>, <<"h","a","s","h">>, <<"n","i","d">>, <<"e","p","i","d">>, <<"m","k","r","i","d">>,
     <<"_","f","r","o","m">>, <<"_","t","r","k","s","i","d">>}

\* Remove hash marketing fragments like #itmhash
dropMarketingHash(u) ==
    LET h == toLowerCase(hash(u))
    IN  IF Len(h) > 0 /\ (includes(h, <<"i","t","m">>) \/ includes(h, <<"m","k","c","i","d">>) \/ includes(h, <<"c","a","m","p","i","d">>)
                          \/ includes(h, <<"m","k","e","v","t">>))
        THEN ClearHash(u) ELSE u

cleanEbay(u) == dropMarketingHash(stripParams(u, EbayAllowed, FALSE))

\* the hosts byDomain hands to cleanAmazon
isAmazonFamilyHost(host) ==
    \/ endsWith(host, <<".","a","m","a","z","o","n",".","c","o","m">>)
    \/ endsWith(host, <<".","a","m","a","z","o","n",".","c","o",".","u","k">>)
    \/ endsWith(host, <<".","a","m","a","z","o","n",".","d","e">>)
    \/ endsWith(host, <<".","a","m","a","z","o","n",".","f","r">>)
    \/ endsWith(host, <<".","a","m","a","z","o","n",".","e","s">>)
    \/ endsWith(host, <<".","a","m","a","z","o","n",".","i","t">>)
    \/ endsWith(host, <<".","a","m","a","z","o","n",".","c","a">>)
    \/ endsWith(host, <<".","a","m","a","z","o","n",".","c","o","m",".","m","x">>)
    \/ endsWith(host, <<".","a","m","a","z","o","n",".","c","o",".","j","p">>)
    \/ host = <<"a","m","a","z","o","n",".","c","o","m">>

isYouTubeHost(host) ==
    host \in {<<"w","w","w",".","y","o","u","t","u","b","e",".","c","o","m">>, <<"y","o","u","t","u","b","e",".","c","o","m">>, <<"m",".","y","o","u","t","u","b","e",".","c","o","m">>, <<"y","o","u","t","u","b","e","-","n","o","c","o","o","k","i","e",".","c","o","m">>,
              <<"w","w","w",".","y","o","u","t","u","b","e","-","n","o","c","o","o","k","i","e",".","c","o","m">>}

isEbayHost(host) ==
    \/ endsWith(host, <<".","e","b","a","y",".","c","o","m">>)
    \/ endsWith(host, <<".","e","b","a","y",".","c","o",".","u","k">>)
    \/ endsWith(host, <<".","e","b","a","y",".","d","e">>)
    \/ endsWith(host, <<".","e","b","a","y",".","f","r">>)
    \/ endsWith(host, <<".","e","b","a","y",".","i","t">>)
    \/ endsWith(host, <<".","e","b","a","y",".","e","s">>)

\* FEATURES.rules.youtube and FEATURES.rules.ebay are true (config.js)
byDomain(u) ==
    LET host == toLowerCase(u.hostname)
    IN  IF isAppsFlyerHost(host) THEN cleanAppsflyer(u)
        ELSE IF isAmazonFamilyHost(host) THEN cleanAmazon(u)
        ELSE IF isYouTubeHost(host) THEN cleanYouTube(u)
        ELSE IF host = <<"y","o","u","t","u",".","b","e">> THEN cleanYouTubeShort(u)
        ELSE IF isEbayHost(host) THEN cleanEbay(u)
        ELSE u

\* s.replaceAll(/\/{2,}/g, "/")
CollapseSlashes(s) ==
    Concat([i \in 1..Len(s) |->
              IF i < Len(s) /\ s[i] = "/" /\ s[i + 1] = "/" THEN <<>> ELSE <<s[i]>>],
           1, Len(s))

normalize(u) ==
    LET u1 == SetHostname(u, toLowerCase(u.hostname))
        u2 == IF \/ protocol(u1) = <<"h","t","t","p",":">> /\ u1.port = <<"8","0">>
                 \/ protocol(u1) = <<"h","t","t","p","s",":">> /\ u1.port = <<"4","4","3">>
              THEN ClearPort(u1) ELSE u1
    IN  dropDanglingQuery(SetPathname(u2, CollapseSlashes(u2.pathname)))

\* no base argument: document.baseURI, the page
resolveBase == Location

\* cleanParsed with the unwrapped target dropped: the pipeline runs on the wrapper
cleanParsed_wrapperKept(input, u) ==
    IF ~u.ok THEN cleanOutput' = [threw |-> FALSE, value |-> input]
    ELSE IF protocol(u) = JAVASCRIPT_PROTOCOL
    THEN cleanOutput' = [threw |-> FALSE, value |-> Str(<<"a","b","o","u","t",":","b","l","a","n","k">>)]
    ELSE IF protocol(u) \in {<<"d","a","t","a",":">>, <<"b","l","o","b",":">>, <<"a","b","o","u","t",":">>}
    THEN cleanOutput' = [threw |-> FALSE, value |-> Str(Href(u))]
    ELSE \E target \in {u} :
         \E stripped \in {stripParams(target, {}, FALSE)} :
         \E ruled \in {byDomain(stripped)} :
         \E normal \in {normalize(ruled)} :
            cleanOutput' = [threw |-> FALSE, value |-> Str(Href(normal))]

\* cleanHref once new URL(input, base) has returned u (ok = FALSE: it threw): the
\* scheme checks, then unwrap, strip, per-domain rule and normalize, each statement
\* on the URL the one before it left; cleanOutput' is what the call returns
cleanParsed(input, u) ==
    IF ~u.ok THEN cleanOutput' = [threw |-> FALSE, value |-> input]
    ELSE IF protocol(u) = JAVASCRIPT_PROTOCOL
    THEN cleanOutput' = [threw |-> FALSE, value |-> Str(<<"a","b","o","u","t",":","b","l","a","n","k">>)]
    ELSE IF protocol(u) \in {<<"d","a","t","a",":">>, <<"b","l","o","b",":">>, <<"a","b","o","u","t",":">>}
    THEN cleanOutput' = [threw |-> FALSE, value |-> Str(Href(u))]
    ELSE \E target \in {OrURL(resolveRedirector(u), u)} :
         \E stripped \in {stripParams(target, {}, FALSE)} :
         \E ruled \in {byDomain(stripped)} :
         \E normal \in {normalize(ruled)} :
            cleanOutput' = [threw |-> FALSE, value |-> Str(Href(normal))]

\* URLCleaner.cleanHref(input): cleanOutput' is [threw, value], value the string returned
cleanHref(input) ==
    IF input.t = "str" /\ startsWith(toLowerCase(trim(input.s)), JAVASCRIPT_PROTOCOL)
    THEN cleanOutput' = [threw |-> FALSE, value |-> Str(<<"a","b","o","u","t",":","b","l","a","n","k">>)]
    ELSE \E u \in {ParseURL(String(input), resolveBase)} : cleanParsed(input, u)

-----------------------------------------------------------------------------
(* The hrefs handed to cleanHref and the calls of cleanHref.               *)

\* at most this many query parameters in a generated href
MaxParams == 2

\* cleanHref runs at most this many times on one href (the adapters clean an
\* attribute again when it is set again)
MaxCleanCalls == 2

\* the sequences of at most n elements of pool
SeqsUpTo(pool, n) == UNION {[1..k -> pool] : k \in 0..n}

\* "?a=1&b=2" from <<"a=1", "b=2">>, "" from <<>>
QueryOf(pieces) == IF Len(pieces) = 0 THEN <<>> ELSE <<"?">> \o join(pieces, "&")

\* the hrefs https://host/path?query#hash of one family of sites
Hrefs(hosts, paths, pool, hashes) ==
    {<<"h","t","t","p","s",":","/","/">> \o h \o p \o QueryOf(q) \o f :
        h \in hosts, p \in paths, q \in SeqsUpTo(pool, MaxParams), f \in hashes}

GenericHrefs ==
    Hrefs({<<"e","x","a","m","p","l","e",".","c","o","m">>, <<"E","x","a","m","p","l","e",".","C","O","M",":","4","4","3">>},
          {<<"/","a","/","r","e","f","=","c","s","t","m">>, <<"/","b","l","o","g","/","/","p","a","g","e">>},
          {<<"u","t","m","_","s","o","u","r","c","e","=","x">>, <<"i","d","=","7">>, <<"e","=">>, <<"n","e","x","t","=","h","t","t","p","s",":","/","/","a","m","p","l","e",".","c","o","m","/">>},
          {<<>>, <<"#","t","o","p">>})

AmazonHrefs ==
    Hrefs({<<"w","w","w",".","a","m","a","z","o","n",".","c","o","m">>, <<"w","w","w",".","a","m","a","z","o","n",".","n","l">>, <<"a","m","a","z","o","n",".","e","x","a","m","p","l","e",".","c","o","m">>},
          {<<"/","d","p","/","A","B","C","D","E","F","1","2","3","4","/","r","e","f","=","s","o","m","e","t","h","i","n","g","/","e","x","t","r","a">>, <<"/","d","p","/","/","a","b","c","d","e","f","1","2","3","4">>, <<"/","s","/","r","e","f","=","n","b","_","s","b">>,
           <<"/","a","p","/","s","i","g","n","i","n">>, <<"/","g","p","/","b","u","y","/","r","e","f","=","o","x","/","s","p","c">>},
          {<<"u","t","m","_","s","o","u","r","c","e","=","x">>, <<"k","=","s","s","d">>, <<"k","=">>, <<"r","e","f","_","=","n","b">>},
          {<<>>, <<"#","n","a","v">>})

YouTubeHrefs ==
    Hrefs({<<"w","w","w",".","y","o","u","t","u","b","e",".","c","o","m">>, <<"m",".","y","o","u","t","u","b","e",".","c","o","m">>, <<"y","o","u","t","u",".","b","e">>},
          {<<"/","w","a","t","c","h">>, <<"/","s","h","o","r","t","s","/","V","I","D","1","2","3">>, <<"/","e","m","b","e","d","/","V","I","D","1","2","3">>, <<"/","e","m","b","e","d","/","v","i","d","e","o","s","e","r","i","e","s">>},
          {<<"v","=","V","I","D","1","2","3">>, <<"t","=","1","0">>, <<"s","t","a","r","t","=","5">>, <<"l","i","s","t","=","P","L","1">>, <<"s","i","=","x","y","z">>},
          {<<>>, <<"#","t","=","1","m","3","0","s">>})

EbayHrefs ==
    Hrefs({<<"w","w","w",".","e","b","a","y",".","c","o","m">>, <<"g","o",".","o","n","e","l","i","n","k",".","m","e">>},
          {<<"/","i","t","m","/","1">>},
          {<<"_","n","k","w","=","x">>, <<"m","k","c","i","d","=","1">>, <<"p","i","d","=","1">>, <<"a","f","_","s","u","b","1","=","a">>},
          {<<>>, <<"#","i","t","m","h","a","s","h">>})

\* destinations as they stand in a wrapper's query string
RedirectTargets ==
    {<<"h","t","t","p","s","%","3","A","%","2","F","%","2","F","d","e","s","t",".","e","x","a","m","p","l","e","%","2","F","p","a","g","e">>,
     <<"h","t","t","p","s",":","/","/","d","e","s","t",".","e","x","a","m","p","l","e","/","p","a","g","e">>,
     <<"h","t","t","p","s","%","3","A","%","2","F","%","2","F","d","e","s","t",".","e","x","a","m","p","l","e","%","2","F","p","a","g","e","%","3","F","u","t","m","_","s","o","u","r","c","e","%","3","D","x","%","2","6","i","d","%","3","D","7">>,
     <<"h","t","t","p","s","%","2","5","3","A","%","2","5","2","F","%","2","5","2","F","d","e","s","t",".","e","x","a","m","p","l","e","%","2","5","2","F","p","a","g","e">>,
     <<"h","t","t","p","s","%","3","A","%","2","F","%","2","F","t",".","c","o","%","2","F","%","3","F","u","r","l","%","3","D","h","t","t","p","s","%","2","5","3","A","%","2","5","2","F","%","2","5","2","F","d","e","s","t",".","e","x","a","m","p","l","e","%","2","5","2","F","p","a","g","e">>,
     <<"h","t","t","p","s","%","3","A","%","2","F","%","2","F","w","w","w",".","a","m","a","z","o","n",".","c","o","m","%","2","F","a","p","%","2","F","s","i","g","n","i","n","%","3","F","u","t","m","_","s","o","u","r","c","e","%","3","D","x">>,
     <<"j","a","v","a","s","c","r","i","p","t",":","x">>,
     <<"d","e","s","t">>,
     <<"%">>}

RedirectHrefs ==
    {<<"h","t","t","p","s",":","/","/">> \o h \o <<"?">> \o n \o <<"=">> \o t \o e :
        h \in {<<"t",".","c","o","/">>, <<"t",".","c","o","/","r","e","f","=","x">>, <<"w","w","w",".","g","o","o","g","l","e",".","c","o","m","/","u","r","l">>, <<"w","w","w",".","g","o","o","g","l","e",".","c","o","m","/","s","e","a","r","c","h">>,
               <<"p","i","n","t","e","r","e","s","t",".","c","o","m","/","p","i","n">>},
        n \in {<<"u","r","l">>, <<"q">>},
        t \in RedirectTargets,
        e \in {<<>>, <<"&","u","t","m","_","s","o","u","r","c","e","=","w">>}}

\* hrefs that are no http(s) URL, or no URL at all
OtherHrefs ==
    {<<" ","J","a","v","a","S","c","r","i","p","t",":","x">>, <<"d","a","t","a",":","t","e","x","t","/","p","l","a","i","n",",","h","e","l","l","o">>, <<"a","b","o","u","t",":","b","l","a","n","k","?","u","t","m","_","s","o","u","r","c","e","=","x">>,
     <<"b","l","o","b",":","h","t","t","p","s",":","/","/","e","x","a","m","p","l","e",".","c","o","m","/","i","d">>, <<"m","a","i","l","t","o",":","u","s","e","r","?","u","t","m","_","s","o","u","r","c","e","=","x">>, <<"h","t","t","p","s",":","/","/">>,
     <<"/","a","/","r","e","f","=","c","s","t","m","?","u","t","m","_","s","o","u","r","c","e","=","x">>, <<"p","a","g","e","?","i","d","=","7">>,
     <<" ","a","b","o","u","t",":","b","l","a","n","k">>, <<"D","A","T","A",":","t","e","x","t","/","p","l","a","i","n",",","h","e","l","l","o">>,
     <<"h","t","t","p","s",":","/","/","m",".","y","o","u","t","u","b","e",".","c","o","m","/","p","l","a","y","l","i","s","t","?","l","i","s","t","=","P","L","1">>,
     <<"h","t","t","p","s",":","/","/","w","w","w",".","y","o","u","t","u","b","e","-","n","o","c","o","o","k","i","e",".","c","o","m","/","e","m","b","e","d","/","V","I","D","1","2","3","?","s","t","a","r","t","=","5">>,
     <<"h","t","t","p","s",":","/","/","y","o","u","t","u","b","e",".","c","o","m","/","s","h","o","r","t","s","/","V","I","D","1","2","3","?","t","=","1","0","#","t","=","1","m","3","0","s">>,
     <<"h","t","t","p","s",":","/","/","w","w","w",".","a","m","a","z","o","n",".","c","o","m","/","g","p","/","p","r","o","d","u","c","t","/","a","b","c","d","e","f","1","2","3","4","?","k","=","s","s","d","#","n","a","v">>,
     <<"h","t","t","p","s",":","/","/","s","m","i","l","e",".","a","m","a","z","o","n",".","c","o","m",":","8","4","4","3","/","g","p","/","a","w","/","d","/","A","B","C","D","E","F","1","2","3","4","/","x","?","u","t","m","_","s","o","u","r","c","e","=","x">>,
     <<"h","t","t","p","s",":","/","/","w","w","w",".","a","m","a","z","o","n",".","c","o","m","/","r","e","f","=","x","/","a","p","/","d","p","/","A","B","C","D","E","F","1","2","3","4","?","k","=","s","s","d">>}

CleanInputs ==
    {Str(h) : h \in GenericHrefs \cup AmazonHrefs \cup YouTubeHrefs \cup EbayHrefs
                     \cup RedirectHrefs \cup OtherHrefs}

\* an adapter (link, attribute, navigation) calls URLCleaner.cleanHref(href)
CleanHref ==
    /\ cleanCalls = 0
    /\ \E input \in CleanInputs :
         /\ cleanInput' = input
         /\ cleanHref(input)
    /\ cleanCalls' = 1
    /\ UNCHANGED <<blockVars, pageVars>>

\* the cleaned href is written back and comes through an adapter again
Reclean ==
    /\ cleanCalls >= 1
    /\ cleanCalls < MaxCleanCalls
    /\ ~cleanOutput.threw
    /\ cleanInput' = cleanOutput.value
    /\ cleanHref(cleanOutput.value)
    /\ cleanCalls' = cleanCalls + 1
    /\ UNCHANGED <<blockVars, pageVars>>

NextClean ==
    \/ CleanHref
    \/ Reclean

\* the URL cleaner on the hrefs of CleanInputs
SpecClean == Init /\ [][NextClean]_vars

-----------------------------------------------------------------------------
(* Properties of the blocking predicate.                                   *)

\* a shouldBlock call has run in the current configuration
Called == blockResult # "none"

\* the URL that call parsed
Parsed == ParseURL(String(blockUrl), Location)

\* the call got as far as the host checks
ReachedHostChecks ==
    /\ Called
    /\ Truthy(blockUrl)
    /\ ~\E i \in 1..Len(ALLOWED_SCHEMES) : startsWith(String(blockUrl), ALLOWED_SCHEMES[i])
    /\ Parsed.ok

\* a host pattern and a host as they are compared: trimmed, lowercased, without one
\* trailing dot
NormPattern(v) == normalizeHostname(toLowerCase(trim(String(v))))
HostNorm(u) == normalizeHostname(toLowerCase(u.hostname))

NumLabels(s) == Cardinality({i \in 1..Len(s) : s[i] = "."}) + 1

\* h is p, or ends with "." followed by p: p closes h on a label boundary
OnLabelBoundary(h, p) == h = p \/ endsWith(h, <<".">> \o p)

\* what the matcher is specified to accept, stated on characters: the pattern itself,
\* and for a pattern of two labels or more the hosts it closes on a label boundary
SpecifiedMatch(h, p) == h = p \/ (NumLabels(p) >= 2 /\ endsWith(h, <<".">> \o p))

IsWildcard(v) == Truthy(v) /\ startsWith(NormPattern(v), <<"*",".">>)

SpecifiedPatternMatch(h, v) ==
    /\ Truthy(v)
    /\ NormPattern(v) \notin {<<>>, <<"*">>, <<"*",".">>}
    /\ IF IsWildcard(v) THEN SpecifiedMatch(h, SliceFrom(NormPattern(v), 3))
       ELSE SpecifiedMatch(h, NormPattern(v))

WellFormedRule(rule) == rule.pathStartsWith.t \in {"str", "null"}

\* C1 (as claimed): a URL that parses and matches an allowed host pattern or an
\* allowed path rule is never blocked: shouldBlock returns false, whatever the block
\* collections hold
C1_AllowListWins ==
    (/\ ReachedHostChecks
     /\ \/ hostnameMatches(Parsed, ALLOWED_HOSTS)
        \/ \E i \in 1..Len(ALLOWED_RULES) :
              WellFormedRule(ALLOWED_RULES[i]) /\ ruleOutcome(Parsed, ALLOWED_RULES[i]) = "true")
    => blockResult = "false"

\* only non-wildcard patterns are blocked, nothing is allowed, no rule is set
OnlyPlainBlockedHosts ==
    /\ ALLOWED_HOSTS = <<>> /\ ALLOWED_RULES = <<>> /\ BLOCKED_RULES = <<>>
    /\ ~allowSameOrigin
    /\ \A i \in 1..Len(BLOCKED_HOSTS) : ~IsWildcard(BLOCKED_HOSTS[i])

\* C2 (as claimed): a non-wildcard pattern P matches exactly P itself and every host
\* that ends with "." and P (every subdomain of P); a host that merely ends with the
\* characters of P is not matched
C2_SubdomainsAlwaysMatch ==
    (ReachedHostChecks /\ OnlyPlainBlockedHosts)
    => (blockResult = "true"
        <=> \E i \in 1..Len(BLOCKED_HOSTS) :
               /\ Truthy(BLOCKED_HOSTS[i])
               /\ OnLabelBoundary(HostNorm(Parsed), NormPattern(BLOCKED_HOSTS[i])))

\* C2 (amended): a non-wildcard pattern P matches a host H exactly when H is P, or P
\* has at least two labels and H ends with "." and P; a host that merely ends with
\* the characters of P is not matched, and neither is a subdomain of a one-label P
C2_LabelBoundaryMatch ==
    (ReachedHostChecks /\ OnlyPlainBlockedHosts)
    => (blockResult = "true"
        <=> \E i \in 1..Len(BLOCKED_HOSTS) :
               SpecifiedPatternMatch(HostNorm(Parsed), BLOCKED_HOSTS[i]))

\* C2 witness: a host that ends with the characters of a blocked pattern, off a label
\* boundary (testample.com for ample.com), was evaluated and not blocked
C2_Witness ==
    /\ ReachedHostChecks /\ OnlyPlainBlockedHosts
    /\ blockResult = "false"
    /\ \E i \in 1..Len(BLOCKED_HOSTS) :
          /\ Truthy(BLOCKED_HOSTS[i])
          /\ NumLabels(NormPattern(BLOCKED_HOSTS[i])) >= 2
          /\ endsWith(HostNorm(Parsed), NormPattern(BLOCKED_HOSTS[i]))

\* the parsed host, or host and path, is matched by a block entry
HostOrPathBlocked ==
    \/ \E i \in 1..Len(BLOCKED_HOSTS) : SpecifiedPatternMatch(HostNorm(Parsed), BLOCKED_HOSTS[i])
    \/ \E i \in 1..Len(BLOCKED_RULES) :
          /\ SpecifiedPatternMatch(HostNorm(Parsed), BLOCKED_RULES[i].host)
          /\ \/ ~Truthy(BLOCKED_RULES[i].pathStartsWith)
             \/ startsWith(Parsed.pathname, BLOCKED_RULES[i].pathStartsWith.s)
             \/ startsWith(Parsed.pathname, <<"/">> \o BLOCKED_RULES[i].pathStartsWith.s)

\* C3: shouldBlock returns true only for a URL whose parsed hostname (and, for a
\* rule, path) is matched by a block entry; a tracker host in the query string of a
\* URL whose own host is not blocked never yields true
C3_QueryNonLeakage ==
    blockResult = "true" => (ReachedHostChecks /\ HostOrPathBlocked)

\* C3 witness: a URL that names a blocked host in its query string only was
\* evaluated and not blocked
C3_Witness ==
    /\ ReachedHostChecks
    /\ blockResult = "false"
    /\ Parsed.hasQuery
    /\ ~HostOrPathBlocked
    /\ \E i \in 1..Len(BLOCKED_HOSTS) :
          Truthy(BLOCKED_HOSTS[i]) /\ includes(Parsed.query, NormPattern(BLOCKED_HOSTS[i]))

\* the URL is matched by an allow entry
AllowMatched ==
    \/ hostnameMatches(Parsed, ALLOWED_HOSTS)
    \/ urlMatches(Parsed, ALLOWED_RULES) = "true"

\* C4 (as claimed): with allowSameOrigin enabled, a URL on the page's own hostname is
\* never blocked: shouldBlock returns false; with it disabled, the block entries
\* decide for a same-host URL that no allow entry matches
C4_SameOriginAllowed ==
    (ReachedHostChecks /\ Parsed.hostname = Location.hostname)
    => IF allowSameOrigin THEN blockResult = "false"
       ELSE (AllowMatched \/ blockResult = hostOrRuleMatches(Parsed, BLOCKED_HOSTS, BLOCKED_RULES))

\* C10 (as claimed): shouldBlock and cleanHref return a value for every input and
\* every content of the pattern collections, malformed entries included: no call
\* ends in an exception
C10_Total == blockResult # "throw" /\ ~cleanOutput.threw

\* the shapes of host pattern that are specified as invalid: empty, exactly "*", a
\* leading dot, nothing but dots, a "*" anywhere but in one leading "*.", or a
\* wildcard whose base is of such a shape
InvalidShapeText(p) ==
    \/ Len(p) = 0
    \/ p = <<"*">>
    \/ p[1] = "."
    \/ \A i \in 1..Len(p) : p[i] = "."
    \/ \E i \in 2..Len(p) : p[i] = "*"
    \/ p[1] = "*" /\ p[2] # "."
    \/ startsWith(p, <<"*",".">>) /\ (Len(p) = 2 \/ p[3] = ".")

InvalidShape(v) == ~Truthy(v) \/ InvalidShapeText(toLowerCase(trim(String(v))))

\* nothing but host patterns of invalid shape is configured
OnlyInvalidPatterns ==
    /\ ALLOWED_HOSTS = <<>> /\ ALLOWED_RULES = <<>> /\ BLOCKED_RULES = <<>>
    /\ Len(BLOCKED_HOSTS) > 0
    /\ \A i \in 1..Len(BLOCKED_HOSTS) : InvalidShape(BLOCKED_HOSTS[i])

\* C11 (as claimed): a host pattern of invalid shape matches no host at all: with
\* nothing but such patterns configured, shouldBlock returns false for every URL
C11_InvalidShapesInert ==
    (ReachedHostChecks /\ OnlyInvalidPatterns) => blockResult = "false"

\* four labels of digits: a dotted IPv4 literal as URL.hostname gives it
IsIPv4(h) ==
    /\ NumLabels(h) = 4
    /\ \A i \in 1..Len(h) : h[i] \in DigitSet \cup {"."}
    /\ \A i \in 1..Len(split(h, ".")) : Len(split(h, ".")[i]) > 0

IsIPLiteral(h) == IsIPv4(h) \/ IsBracketed(h)

\* C12 (as claimed): a URL whose host is an IP literal is matched by no host pattern,
\* whatever the collections hold: shouldBlock returns false for it
C12_IPLiteralNeverMatched ==
    (ReachedHostChecks /\ IsIPLiteral(HostNorm(Parsed)))
    => /\ ~hostnameMatches(Parsed, BLOCKED_HOSTS)
       /\ ~hostnameMatches(Parsed, ALLOWED_HOSTS)
       /\ blockResult = "false"

\* shouldBlock(url) evaluated from scratch over the given collections
Evaluation(url, blockedHosts, blockedRules, allowedHosts, allowedRules) ==
    IF ~Truthy(url) THEN "false"
    ELSE IF \E i \in 1..Len(ALLOWED_SCHEMES) : startsWith(String(url), ALLOWED_SCHEMES[i])
    THEN "false"
    ELSE LET parsed == ParseURL(String(url), Location)
             allowed == hostOrRuleMatches(parsed, allowedHosts, allowedRules)
         IN  IF ~parsed.ok THEN "false"
             ELSE IF allowed = "throw" THEN "throw"
             ELSE IF allowed = "true" THEN "false"
             ELSE IF allowSameOrigin /\ parsed.hostname = Location.hostname THEN "false"
             ELSE hostOrRuleMatches(parsed, blockedHosts, blockedRules)

ValidWildcard(v) == IsWildcard(v) /\ ~InvalidShape(v)
WildcardBase(v) == SliceFrom(NormPattern(v), 3)

NothingAllowed == ALLOWED_HOSTS = <<>> /\ ALLOWED_RULES = <<>> /\ ~allowSameOrigin

\* C14 (as claimed): a wildcard pattern "*.B" matches the apex host B and every
\* subdomain of B at any depth, so a URL on such a host is blocked
C14_WildcardApexAndSubdomains ==
    (/\ ReachedHostChecks /\ NothingAllowed
     /\ \E i \in 1..Len(BLOCKED_HOSTS) :
           /\ ValidWildcard(BLOCKED_HOSTS[i])
           /\ OnLabelBoundary(HostNorm(Parsed), WildcardBase(BLOCKED_HOSTS[i])))
    => blockResult = "true"

\* C14 (amended): a wildcard pattern "*.B" matches the apex host B and, when B has
\* at least two labels, every subdomain of B at any depth; the subdomains of a
\* one-label B are not matched
C14_WildcardMultiLabelBase ==
    /\ (/\ ReachedHostChecks /\ NothingAllowed
        /\ \E i \in 1..Len(BLOCKED_HOSTS) :
              /\ ValidWildcard(BLOCKED_HOSTS[i])
              /\ SpecifiedMatch(HostNorm(Parsed), WildcardBase(BLOCKED_HOSTS[i])))
       => blockResult = "true"
    /\ (/\ ReachedHostChecks /\ NothingAllowed /\ BLOCKED_RULES = <<>>
        /\ Len(BLOCKED_HOSTS) > 0
        /\ \A i \in 1..Len(BLOCKED_HOSTS) :
              /\ ValidWildcard(BLOCKED_HOSTS[i])
              /\ NumLabels(WildcardBase(BLOCKED_HOSTS[i])) = 1
              /\ HostNorm(Parsed) # WildcardBase(BLOCKED_HOSTS[i]))
       => blockResult = "false"

\* C14 witness: a host two labels below the base of the only blocked pattern, a
\* wildcard (a.b.example.com for *.example.com), was evaluated and blocked
C14_Witness ==
    /\ ReachedHostChecks /\ NothingAllowed /\ BLOCKED_RULES = <<>>
    /\ Len(BLOCKED_HOSTS) = 1 /\ ValidWildcard(BLOCKED_HOSTS[1])
    /\ endsWith(HostNorm(Parsed), <<".">> \o WildcardBase(BLOCKED_HOSTS[1]))
    /\ NumLabels(HostNorm(Parsed)) = NumLabels(WildcardBase(BLOCKED_HOSTS[1])) + 2
    /\ ~includes(HostNorm(Parsed), <<".",".">>)
    /\ blockResult = "true"

\* C15: for null, undefined or the empty string, and for a string that does not
\* parse as a URL against the page location, shouldBlock returns false, whatever
\* the four collections hold
C15_FailOpen ==
    (Called /\ (~Truthy(blockUrl) \/ ~Parsed.ok)) => blockResult = "false"

\* C15 witness: a string that does not parse was evaluated while one of the blocked
\* host patterns occurs in it
C15_Witness ==
    /\ Called /\ Truthy(blockUrl) /\ ~Parsed.ok
    /\ \E i \in 1..Len(BLOCKED_HOSTS) :
          /\ Truthy(BLOCKED_HOSTS[i])
          /\ Len(NormPattern(BLOCKED_HOSTS[i])) > 2
          /\ includes(String(blockUrl), NormPattern(BLOCKED_HOSTS[i]))

\* the argument starts with one of the prefixes of ALLOWED_SCHEMES
SchemeAllowed ==
    /\ Truthy(blockUrl)
    /\ \E i \in 1..Len(ALLOWED_SCHEMES) : startsWith(String(blockUrl), ALLOWED_SCHEMES[i])

\* C16: when the argument starts with a prefix of ALLOWED_SCHEMES (data:, blob:,
\* about:, the extension schemes), shouldBlock returns false whatever the four
\* collections hold; no host pattern and no rule decides the call
C16_AllowedSchemePasses ==
    (Called /\ SchemeAllowed) => blockResult = "false"

\* C16 witness: an extension URL was evaluated whose host is matched by a blocked
\* host pattern while nothing is allowed
C16_Witness ==
    /\ Called /\ SchemeAllowed /\ NothingAllowed
    /\ Parsed.ok /\ hostnameMatches(Parsed, BLOCKED_HOSTS)

-----------------------------------------------------------------------------
(* Properties of the URL cleaner.                                          *)

\* a cleanHref call has run; cleanInput is its argument, cleanOutput its result
CleanCalled == cleanCalls >= 1

\* the argument and the result as URLs
InParsed == ParseURL(String(cleanInput), resolveBase)
OutParsed == ParseURL(String(cleanOutput.value), resolveBase)

\* the call went through unwrap, strip, per-domain rule and normalize
Pipeline ==
    /\ CleanCalled
    /\ ~startsWith(toLowerCase(trim(String(cleanInput))), JAVASCRIPT_PROTOCOL)
    /\ InParsed.ok
    /\ protocol(InParsed) \notin {JAVASCRIPT_PROTOCOL, <<"d","a","t","a",":">>, <<"b","l","o","b",":">>, <<"a","b","o","u","t",":">>}

\* a redirector rule matched the argument and its target parameter parsed
Redirected == Pipeline /\ resolveRedirector(InParsed).ok

InHost == toLowerCase(InParsed.hostname)

\* C5 (as claimed): cleaning a cleaned href gives the same href again,
\* cleanHref(cleanHref(x)) = cleanHref(x)
C5_Idempotent == cleanCalls >= 2 => cleanOutput.value = cleanInput

\* global strip, per-domain rule and normalization applied to u
CleanedURL(u) == Href(normalize(byDomain(stripParams(u, {}, FALSE))))

\* C6: when a redirector rule matches the href and its target parameter parses as a
\* URL, cleanHref returns the unwrapped target after the global strip, the rule of the
\* target's domain and normalization; the wrapper contributes nothing to the result
C6_PipelineOnTarget ==
    Redirected => \A target \in {resolveRedirector(InParsed)} :
                      cleanOutput.value = Str(CleanedURL(target))

\* C6 witness: https://t.co/?url=<encoded https://dest.example/page>, with or without
\* a tracking parameter of the wrapper, came out as https://dest.example/page
C6_Witness ==
    /\ Redirected
    /\ InHost = <<"t",".","c","o">>
    /\ includes(String(cleanInput), <<"?","u","r","l","=","h","t","t","p","s","%","3","A","%","2","F","%","2","F","d","e","s","t",".","e","x","a","m","p","l","e","%","2","F","p","a","g","e">>)
    /\ ParamGet(InParsed, <<"u","t","m","_","s","o","u","r","c","e">>) = Str(<<"w">>)
    /\ cleanOutput.value = Str(<<"h","t","t","p","s",":","/","/","d","e","s","t",".","e","x","a","m","p","l","e","/","p","a","g","e">>)

\* the allow-list of the domain rule that handles u, {} where the rule has none
ActiveAllowList(u) ==
    LET host == toLowerCase(u.hostname)
    IN  IF isAppsFlyerHost(host) THEN {}
        ELSE IF isAmazonFamilyHost(host) THEN AmazonAllowed
        ELSE IF isYouTubeHost(host) \/ host = <<"y","o","u","t","u",".","b","e">> THEN YouTubeAllowed
        ELSE IF isEbayHost(host) THEN EbayAllowed
        ELSE {}

\* a parameter the strip removes when no allow-list names it
Strippable(key, value) ==
    LET keyLC == toLowerCase(key)
    IN  \/ keyLC \in GLOBAL_STRIP
        \/ startsWith(keyLC, <<"u","t","m","_">>)
        \/ isAmazonNoiseKey(keyLC, value)

\* the domain rule of u strips by allow-list and leaves path and other parameters
\* alone: marketplace search and browse pages, auction pages
AllowListRuleOnly(u) ==
    LET host == toLowerCase(u.hostname)
    IN  /\ ~isAppsFlyerHost(host)
        /\ \/ /\ isAmazonFamilyHost(host)
              /\ ~isAmazonSensitivePath(u.pathname)
              /\ Len(AsinAfter(u.pathname, <<"/","d","p","/">>)) = 0
              /\ Len(AsinAfter(u.pathname, <<"/","g","p","/","p","r","o","d","u","c","t","/">>)) = 0
              /\ Len(AsinAfter(u.pathname, <<"/","g","p","/","a","w","/","d","/">>)) = 0
           \/ isEbayHost(host)

\* C7 (as claimed): no parameter of the global strip set, with a utm_ name or that is
\* attribution noise (an empty value included) is left in the result unless the
\* allow-list of the active domain rule names it, and a parameter that allow-list
\* names is retained
C7_StripExceptAllowed ==
    (Pipeline /\ ~Redirected /\ OutParsed.ok)
    => /\ \A i \in 1..Len(searchParams(OutParsed)) :
             \/ ~Strippable(searchParams(OutParsed)[i].k, searchParams(OutParsed)[i].v)
             \/ toLowerCase(searchParams(OutParsed)[i].k) \in ActiveAllowList(OutParsed)
       /\ AllowListRuleOnly(InParsed)
          => \A i \in 1..Len(searchParams(InParsed)) :
                toLowerCase(searchParams(InParsed)[i].k) \in ActiveAllowList(InParsed)
                => \E j \in 1..Len(searchParams(OutParsed)) :
                      searchParams(OutParsed)[j] = searchParams(InParsed)[i]

\* C8 (as claimed): a marketplace URL whose path starts with /ap/, /gp/buy/, /cart/,
\* /hz/, /sspa/ or /gp/video/ comes out with its query parameters and its path as
\* they were
C8_SensitivePathUnchanged ==
    (Pipeline /\ ~Redirected /\ isAmazonFamilyHost(InHost)
        /\ isAmazonSensitivePath(InParsed.pathname))
    => /\ OutParsed.ok
       /\ searchParams(OutParsed) = searchParams(InParsed)
       /\ OutParsed.pathname = InParsed.pathname

\* C9 (as claimed): on a host outside the marketplace family of the per-domain rules
\* (and outside the video hosts, whose rule rewrites the path) a path with "/ref="
\* comes out untouched but for the collapsing of repeated slashes
C9_RefOnlyForFamily ==
    (Pipeline /\ ~Redirected /\ ~isAmazonFamilyHost(InHost)
        /\ ~isYouTubeHost(InHost) /\ InHost # <<"y","o","u","t","u",".","b","e">>
        /\ includes(toLowerCase(InParsed.pathname), <<"/","r","e","f","=">>))
    => /\ OutParsed.ok
       /\ OutParsed.pathname = CollapseSlashes(InParsed.pathname)

\* the argument is on one of the hosts of the video rules of byDomain
OnVideoHost == Pipeline /\ ~Redirected /\ (isYouTubeHost(InHost) \/ InHost = <<"y","o","u","t","u",".","b","e">>)

\* the call turned a shorts, embed or short-link URL into a watch URL
Converted ==
    /\ OnVideoHost
    /\ InParsed.pathname # <<"/","w","a","t","c","h">>
    /\ OutParsed.ok /\ OutParsed.pathname = <<"/","w","a","t","c","h">>
    /\ OutParsed.hostname = <<"w","w","w",".","y","o","u","t","u","b","e",".","c","o","m">>

\* the time in the query string and in the fragment of the argument, as JS values
QueryTime == ParamGet(InParsed, <<"t">>)
HashTime ==
    IF startsWith(InParsed.fragment, <<"t","=">>) /\ Len(InParsed.fragment) > 2
    THEN Str(SliceFrom(InParsed.fragment, 3)) ELSE Null

\* C17: a shorts, embed or short-link URL converted to watch form carries the t of
\* the query string when there is one, otherwise the t of the fragment (#t=value);
\* start is carried only when neither holds a time
C17_TimePrecedence ==
    Converted
    => /\ ParamGet(OutParsed, <<"t">>)
            = (IF Truthy(QueryTime) THEN QueryTime ELSE HashTime)
       /\ ParamGet(OutParsed, <<"s","t","a","r","t">>)
            = (IF Truthy(QueryTime) \/ Truthy(HashTime) THEN Null
               ELSE ParamGet(InParsed, <<"s","t","a","r","t">>))

\* C17 witness: a converted URL held a time in the query string and another in the
\* fragment
C17_Witness ==
    /\ Converted /\ Truthy(QueryTime) /\ Truthy(HashTime) /\ QueryTime # HashTime

\* C18 (as claimed): for an argument handled by the video rules, a /watch URL that
\* comes out never carries both t and start
C18_NeverBothTimeAndStart ==
    (OnVideoHost /\ OutParsed.ok /\ OutParsed.pathname = <<"/","w","a","t","c","h">>)
    => ~(Truthy(ParamGet(OutParsed, <<"t">>)) /\ Truthy(ParamGet(OutParsed, <<"s","t","a","r","t">>)))

\* C19 (as claimed): for every URL on a video host (youtube.com, www.youtube.com,
\* m.youtube.com, the youtube-nocookie.com variants, youtu.be) the hostname of the
\* result is www.youtube.com
C19_CanonicalVideoHost ==
    OnVideoHost => (OutParsed.ok /\ OutParsed.hostname = <<"w","w","w",".","y","o","u","t","u","b","e",".","c","o","m">>)

\* C20 (as claimed): for an argument whose scheme is data:, blob: or about:, the
\* string returned is the argument itself
C20_InternalSchemeAsIs ==
    (/\ CleanCalled /\ InParsed.ok
     /\ ~startsWith(toLowerCase(trim(String(cleanInput))), JAVASCRIPT_PROTOCOL)
     /\ protocol(InParsed) \in {<<"d","a","t","a",":">>, <<"b","l","o","b",":">>, <<"a","b","o","u","t",":">>})
    => cleanOutput.value = cleanInput

\* the product identifier in the path of the argument (/dp/, /gp/product/, /gp/aw/d/
\* followed by ten letters or digits), in upper case; <<>> when there is none
InAsin ==
    LET p == InParsed.pathname
    IN  toUpperCase(IF Len(AsinAfter(p, <<"/","d","p","/">>)) > 0 THEN AsinAfter(p, <<"/","d","p","/">>)
                    ELSE IF Len(AsinAfter(p, <<"/","g","p","/","p","r","o","d","u","c","t","/">>)) > 0
                    THEN AsinAfter(p, <<"/","g","p","/","p","r","o","d","u","c","t","/">>)
                    ELSE AsinAfter(p, <<"/","g","p","/","a","w","/","d","/">>))

\* scheme, host and port of a URL
OriginOf(u) ==
    u.scheme \o <<":","/","/">> \o u.hostname \o (IF Len(u.port) > 0 THEN <<":">> \o u.port ELSE <<>>)

\* C21 (as claimed): a marketplace URL outside the sensitive paths whose path holds
\* a product identifier comes out as origin + "/dp/" + identifier, without query
\* string and without fragment
C21_ProductCanonicalForm ==
    (/\ Pipeline /\ ~Redirected /\ isAmazonFamilyHost(InHost)
     /\ ~isAmazonSensitivePath(InParsed.pathname)
     /\ Len(InAsin) > 0)
    => cleanOutput.value = Str(OriginOf(InParsed) \o <<"/","d","p","/">> \o InAsin)

\* C22 (as claimed): cleanHref never returns a javascript: URL, neither for a
\* javascript: argument nor for a redirector link whose target parameter holds one
C22_NeverJavascript ==
    (CleanCalled /\ ~cleanOutput.threw)
    => ~startsWith(toLowerCase(trim(String(cleanOutput.value))), JAVASCRIPT_PROTOCOL)

\* host is the host of one of the entries of REDIRECTORS, or a subdomain of one
ListedRedirectorHost(host) ==
    \E i \in 1..Len(REDIRECTORS) : OnLabelBoundary(host, REDIRECTORS[i].hostIncludes)

\* C25 (as claimed): a URL is replaced by the value of one of its query parameters
\* only when its hostname is a listed redirector service or a subdomain of one; on
\* any other hostname the result is the cleaned URL itself, on its own host, even
\* when a url, u or q parameter holds a URL
C25_UnwrapOnlyListedHosts ==
    (Pipeline /\ ~ListedRedirectorHost(InHost))
    => /\ OutParsed.ok /\ OutParsed.hostname = InHost
       /\ cleanOutput.value = Str(CleanedURL(InParsed))

-----------------------------------------------------------------------------
(* Network interception: PrivacyGuard.interceptXHR and interceptFetch      *)
(* (src/src/core/privacy-guard.js), on one XMLHttpRequest object and on    *)
(* the calls of the patched fetch.                                         *)

\* a URL object as a JS value: its String() form is its href
UrlObject(href) == [t |-> "url", s |-> href]

\* at most this many send() calls on the request object
MaxXhrSends == 3

\* the URLs a page opens requests to: a tracker, a subdomain of the page, a relative
\* reference, a tracker given as a URL object
XhrUrls ==
    {Str(<<"h","t","t","p","s",":","/","/","a","d","s",".","d","o","u","b","l","e","c","l","i","c","k",".","n","e","t","/","c","o","l","l","e","c","t">>), Str(<<"h","t","t","p","s",":","/","/","a","p","i",".","e","x","a","m","p","l","e",".","c","o","m","/","d","a","t","a">>),
     Str(<<"/","g","a","/","x","?","u","=","x",".","c","o">>), UrlObject(<<"h","t","t","p","s",":","/","/","a","d","s",".","d","o","u","b","l","e","c","l","i","c","k",".","n","e","t","/","p","i","x","e","l">>)}

\* the patched XMLHttpRequest.prototype.open: stores the URL under the symbol, then
\* calls the native open
XhrOpen ==
    /\ \E url \in XhrUrls :
         /\ xhrStored' = url
         /\ xhrTarget' = url
    /\ xhrReady' = "opened"
    /\ UNCHANGED <<networkBlock, xhrNativeSends, xhrMicrotasks, xhrSends, fetchNative,
                   fetchOutcome, netRest>>

\* the patched send when the stored URL is blocked: the failure events are queued,
\* the stored URL is deleted, the native send is not called
xhrSendBlocked ==
    /\ xhrMicrotasks' = xhrMicrotasks + 1
    /\ xhrStored' = Null
    /\ UNCHANGED <<xhrTarget, xhrReady, xhrNativeSends>>

\* the patched send otherwise: Reflect.apply(originalSend, this, args), which sends
\* the opened request or throws InvalidStateError; the stored URL is deleted
xhrSendNative ==
    /\ xhrNativeSends' = xhrNativeSends \cup {xhrTarget}
    /\ xhrReady' = IF xhrReady = "opened" THEN "done" ELSE xhrReady
    /\ xhrStored' = Null
    /\ UNCHANGED <<xhrTarget, xhrMicrotasks>>

\* the patched XMLHttpRequest.prototype.send
XhrSend ==
    /\ xhrSends < MaxXhrSends
    /\ xhrSends' = xhrSends + 1
    /\ IF Truthy(xhrStored) /\ shouldBlock(Str(String(xhrStored))) = "true"
       THEN xhrSendBlocked
       ELSE xhrSendNative
    /\ UNCHANGED <<networkBlock, fetchNative, fetchOutcome, netRest>>

\* a queued microtask runs: error, abort and loadend are dispatched on the object
XhrMicrotask ==
    /\ xhrMicrotasks > 0
    /\ xhrMicrotasks' = xhrMicrotasks - 1
    /\ UNCHANGED <<networkBlock, xhrStored, xhrTarget, xhrReady, xhrNativeSends, xhrSends,
                   fetchNative, fetchOutcome, netRest>>

\* the first argument of fetch: kind is "string", "Request", "object" (a plain
\* object) or "URL"; url is its url property (own says whether it is an own
\* property); href is the URL the native fetch requests for it
FetchInput(kind, own, url, href) == [kind |-> kind, own |-> own, url |-> url, href |-> href]

FetchTargets == {<<"h","t","t","p","s",":","/","/","a","d","s",".","d","o","u","b","l","e","c","l","i","c","k",".","n","e","t","/","c","o","l","l","e","c","t">>, <<"h","t","t","p","s",":","/","/","a","p","i",".","e","x","a","m","p","l","e",".","c","o","m","/","d","a","t","a">>}

FetchInputs ==
    {FetchInput("string", FALSE, Null, h) : h \in FetchTargets}
    \cup {FetchInput("Request", FALSE, Str(h), h) : h \in FetchTargets}
    \cup {FetchInput("object", TRUE, UrlObject(h), <<"[","o","b","j","e","c","t"," ","O","b","j","e","c","t","]">>) : h \in FetchTargets}
    \cup {FetchInput("object", TRUE, Null, <<"[","o","b","j","e","c","t"," ","O","b","j","e","c","t","]">>)}
    \cup {FetchInput("URL", FALSE, Null, h) : h \in FetchTargets}

\* the url the patched fetch computes from its first argument
fetchUrl(input) ==
    IF input.kind = "string" THEN input.href
    ELSE IF input.url.t = "str" THEN input.url.s
    ELSE IF input.own /\ input.url.t # "null" THEN String(input.url)
    ELSE <<>>

\* the patched fetch once shouldBlock(url) has answered
fetchDecided(input, blocked) ==
    IF blocked = "throw"
    THEN fetchOutcome' = "threw" /\ UNCHANGED fetchNative
    ELSE IF blocked = "true"
    THEN /\ fetchOutcome' = IF networkBlock = "silent" THEN "resolved204" ELSE "rejected"
         /\ UNCHANGED fetchNative
    ELSE /\ fetchOutcome' = "forwarded"
         /\ fetchNative' = fetchNative \cup {input}

\* a script calls the patched globalThis.fetch(input)
Fetch ==
    /\ \E input \in FetchInputs : fetchDecided(input, shouldBlock(Str(fetchUrl(input))))
    /\ UNCHANGED <<networkBlock, xhrStored, xhrTarget, xhrReady, xhrNativeSends,
                   xhrMicrotasks, xhrSends, netRest>>

NextNet ==
    \/ XhrOpen
    \/ XhrSend
    \/ XhrMicrotask
    \/ Fetch

\* the interceptors on a page with the lists as loaded
SpecNet == Init /\ [][NextNet]_vars

\* C23 (as claimed): for a request opened with a URL that shouldBlock blocks, no
\* send() reaches the native send, neither the first nor a later one made without
\* a new open()
C23_BlockedXhrNeverSent ==
    \A url \in xhrNativeSends :
        ~(Truthy(url) /\ shouldBlock(Str(String(url))) = "true")

\* C24 (as claimed): a fetch call whose request URL is blocked is never forwarded to
\* the native fetch, whether the first argument is a string, a Request, a
\* request-like object or a URL object
C24_BlockedFetchNeverForwarded ==
    \A input \in fetchNative : shouldBlock(Str(input.href)) # "true"

-----------------------------------------------------------------------------
(* Hooks on Element.prototype.setAttribute: PrivacyGuard.init with         *)
(* hardenScriptInsertion (src/src/core/privacy-guard.js) and the           *)
(* image-pixel feature (src/src/features/img-pixel-blocker.js).  A         *)
(* function value is the sequence of the wrappers it is made of, outermost *)
(* first, ending with the native function each wrapper captured.           *)

\* the values pages assign to src: a tracker, a file of the page's own site
HookUrls == {Str(<<"h","t","t","p","s",":","/","/","a","d","s",".","d","o","u","b","l","e","c","l","i","c","k",".","n","e","t","/","t","a","g",".","j","s">>), Str(<<"/","s","t","a","t","i","c","/","a","p","p",".","j","s">>)}

\* ImgPixelBlocker.resolveUrl: the value as an absolute URL string, or as it is
resolveUrl(value) ==
    LET u == ParseURL(String(value), Location)
    IN  IF u.ok THEN Href(u) ELSE String(value)

\* ImgPixelBlocker.shouldBlockValue: false when the blocker is off or shouldBlock throws
shouldBlockValue(value) ==
    imgEnabled /\ shouldBlock(Str(resolveUrl(value))) = "true"

\* what a call fn(name = "src", value) on an element of the given tag does:
\* "neutralized", "setter" (the native src setter of a script), "dropped" (an image
\* assignment the blocker aborts), "native", or "threw"
RECURSIVE callSetAttribute(_, _, _)
callSetAttribute(fn, tag, value) ==
    IF fn[1] = "script" /\ tag = "script"
    THEN CASE shouldBlock(value) = "true" -> "neutralized"
           [] shouldBlock(value) = "throw" -> "threw"
           [] OTHER -> "setter"
    ELSE IF fn[1] = "img" /\ tag = "img" /\ shouldBlockValue(value) THEN "dropped"
    ELSE IF fn[1] = "native" THEN "native"
    ELSE callSetAttribute(Tail(fn), tag, value)

\* ImgPixelBlocker.enable: no effect when already enabled; otherwise the current
\* Element.prototype.setAttribute is kept and wrapped
enable ==
    IF imgEnabled THEN UNCHANGED <<imgEnabled, origSetAttribute, setAttribute>>
    ELSE /\ imgEnabled' = TRUE
         /\ origSetAttribute' = setAttribute
         /\ setAttribute' = <<"img">> \o setAttribute

\* ImgPixelBlocker.disable: no effect when not enabled; otherwise the kept function
\* is put back on Element.prototype
disable ==
    IF ~imgEnabled THEN UNCHANGED <<imgEnabled, origSetAttribute, setAttribute>>
    ELSE /\ imgEnabled' = FALSE
         /\ origSetAttribute' = <<>>
         /\ setAttribute' = IF Len(origSetAttribute) > 0 THEN origSetAttribute
                            ELSE setAttribute

\* PrivacyGuard.init(): loadFeatureFlags reads the stored flag (stored is "none",
\* "on" or "off"), applyAllFeatureStates enables or disables the blocker, then
\* hardenScriptInsertion wraps Element.prototype.setAttribute
PgInit ==
    /\ ~initialized
    /\ initialized' = TRUE
    /\ \E stored \in {"none", "on", "off"} :
         LET flag == IF stored = "none" THEN imgPixels ELSE stored = "on"
         IN  /\ imgPixels' = flag
             /\ imgEnabled' = flag
             /\ origSetAttribute' = IF flag THEN setAttribute ELSE <<>>
             /\ setAttribute' = IF flag THEN <<"script", "img">> \o setAttribute
                                ELSE <<"script">> \o setAttribute
    /\ UNCHANGED <<nativeSetAttribute, scriptSrcSet, neutralized, hookRest>>

\* PrivacyGuard.setFeatureEnabled("imgPixels", enabled), from the panel
SetFeatureEnabled ==
    /\ initialized
    /\ \E enabled \in BOOLEAN :
         IF imgPixels = enabled
         THEN UNCHANGED <<imgPixels, imgEnabled, origSetAttribute, setAttribute>>
         ELSE /\ imgPixels' = enabled
              /\ IF enabled THEN enable ELSE disable
    /\ UNCHANGED <<initialized, nativeSetAttribute, scriptSrcSet, neutralized, hookRest>>

\* at most this many script elements are neutralized
MaxNeutralized == 2

\* a page script calls el.setAttribute("src", value) on a script or an image; the
\* userscript runs at document-start, so page scripts run after init
SetSrcAttribute ==
    /\ initialized
    /\ \E tag \in {"script", "img"}, value \in HookUrls :
         \E outcome \in {callSetAttribute(setAttribute, tag, value)} :
            /\ nativeSetAttribute' = IF outcome = "native"
                                     THEN nativeSetAttribute \cup {<<tag, value>>}
                                     ELSE nativeSetAttribute
            /\ scriptSrcSet' = IF outcome = "setter" THEN scriptSrcSet \cup {value}
                               ELSE scriptSrcSet
            /\ neutralized' = IF outcome = "neutralized" /\ neutralized < MaxNeutralized
                              THEN neutralized + 1 ELSE neutralized
    /\ UNCHANGED <<initialized, imgPixels, imgEnabled, origSetAttribute, setAttribute,
                   hookRest>>

NextHooks ==
    \/ PgInit
    \/ SetFeatureEnabled
    \/ SetSrcAttribute

\* init, the feature toggle and the pages' setAttribute calls
SpecHooks == Init /\ [][NextHooks]_vars

\* the script wrapper is part of Element.prototype.setAttribute
ScriptHardened == \E i \in 1..Len(setAttribute) : setAttribute[i] = "script"

\* C26 (as claimed): after init, whatever setFeatureEnabled("imgPixels", ...) calls
\* were made, the script hardening stays installed and setAttribute("src", url) on a
\* script element with a blocked url never reaches the native setAttribute
C26_ScriptHardeningStays ==
    initialized
    => /\ ScriptHardened
       /\ \A call \in nativeSetAttribute :
             ~(call[1] = "script" /\ shouldBlock(call[2]) = "true")

-----------------------------------------------------------------------------
(* DOM observer: src/src/core/privacy-guard.js, observeDOMChanges (840-939),
   scanNodeForBlockedElements (806-834), neutralizeScript and removeNode.  *)

\* the src of the three elements with a src attribute
Src(n) ==
    CASE n = "script" -> Str(<<"h","t","t","p","s",":","/","/","a","d","s",".","d","o","u","b","l","e","c","l","i","c","k",".","n","e","t","/","t","a","g",".","j","s">>)
      [] n = "iframe" -> Str(<<"h","t","t","p","s",":","/","/","a","d","s",".","d","o","u","b","l","e","c","l","i","c","k",".","n","e","t","/","f","r","a","m","e",".","h","t","m","l">>)
      [] OTHER -> Str(<<"h","t","t","p","s",":","/","/","e","x","a","m","p","l","e",".","c","o","m","/","p","a","g","e">>)

\* the parents the page gives a node: "doc" is the document's body
Parents(n) ==
    CASE n = "div" -> {"doc"}
      [] n = "script" -> {"div", "doc"}
      [] n = "iframe" -> {"div"}
      [] OTHER -> {"div", "doc"}

\* the elements with a src attribute in document order
LeafOrder == <<"script", "module", "iframe">>

\* at most this many added nodes wait for the observer's callback
MaxRecords == 2

\* a.contains(n)
RECURSIVE contains(_, _, _)
contains(parent, a, n) ==
    IF n = a THEN TRUE
    ELSE IF parent[n] \in {"doc", "none"} THEN FALSE
    ELSE contains(parent, a, parent[n])

\* n.isConnected
RECURSIVE isConnected(_, _)
isConnected(parent, n) ==
    IF parent[n] = "doc" THEN TRUE
    ELSE IF parent[n] = "none" THEN FALSE
    ELSE isConnected(parent, parent[n])

\* pending.add(n): a Set keeps insertion order and no duplicates
pendingAdd(seq, n) ==
    IF \E i \in 1..Len(seq) : seq[i] = n THEN seq ELSE Append(seq, n)

\* removeNode(node, reason), also the last step of neutralizeScript: node.remove()
removeNode(st, n) ==
    [st EXCEPT !.parent = [@ EXCEPT ![n] = "none"]]

\* the end of collectNode: pending as it is now, and a callback is scheduled when
\* none is and pending is not empty
collectPending(st, pend) ==
    [st EXCEPT !.pending = pend, !.sched = st.sched \/ Len(pend) > 0]

\* the tail of collectNode: a node that matches or contains script[src], iframe[src]
\* joins pending
collectRelevant(st, n) ==
    collectPending(st, IF n \in Leaves \/ \E l \in Leaves : contains(st.parent, n, l)
                       THEN pendingAdd(st.pending, n) ELSE st.pending)

\* collectNode on a script or iframe, blocked being what shouldBlock did on its src;
\* a throw leaves the observer's callback
collectLeaf(st, n, blocked) ==
    IF blocked = "throw" THEN [st EXCEPT !.threw = TRUE]
    ELSE IF blocked = "true" THEN removeNode(st, n)
    ELSE collectRelevant(st, n)

\* collectNode(node)
collectNode(st, n) ==
    IF st.threw THEN st
    ELSE IF n \in Containers THEN collectRelevant(st, n)
    ELSE collectLeaf(st, n, shouldBlock(Src(n)))

\* the observer's callback: collectNode on every added node of the records
RECURSIVE collectAll(_, _)
collectAll(st, recs) ==
    IF recs = <<>> THEN st
    ELSE collectAll(collectNode(st, Head(recs)), Tail(recs))

\* one pass of the roots loop of runPending
rootsWith(parent, roots, node) ==
    IF ~isConnected(parent, node) THEN roots
    ELSE IF \E i \in 1..Len(roots) : contains(parent, roots[i], node) THEN roots
    ELSE Append(SelectSeq(roots, LAMBDA r : ~contains(parent, node, r)), node)

\* the roots loop of runPending over the pending nodes in insertion order
RECURSIVE pendingRoots(_, _, _)
pendingRoots(parent, seq, roots) ==
    IF seq = <<>> THEN roots
    ELSE pendingRoots(parent, Tail(seq), rootsWith(parent, roots, Head(seq)))

\* a script or iframe under scan, blocked being what shouldBlock did on its src
scanElement(st, el, blocked) ==
    IF blocked = "throw" THEN [st EXCEPT !.threw = TRUE]
    ELSE IF blocked = "true" THEN removeNode(st, el)
    ELSE st

\* the loop of scanNodeForBlockedElements over querySelectorAll's static list
RECURSIVE scanElements(_, _)
scanElements(st, els) ==
    IF els = <<>> \/ st.threw THEN st
    ELSE scanElements(scanElement(st, Head(els), shouldBlock(Src(Head(els)))), Tail(els))

\* scanNodeForBlockedElements(node)
scanNodeForBlockedElements(st, node) ==
    IF node \in Leaves THEN scanElement(st, node, shouldBlock(Src(node)))
    ELSE scanElements(st, SelectSeq(LeafOrder, LAMBDA l : contains(st.parent, node, l)))

\* the scan of root returned: st.done are the roots whose scan returned
rootScanned(after, root) ==
    IF after.threw THEN after ELSE [after EXCEPT !.done = @ \cup {root}]

\* for (const root of roots) scanNodeForBlockedElements(root)
RECURSIVE scanRoots(_, _)
scanRoots(st, roots) ==
    IF roots = <<>> \/ st.threw THEN st
    ELSE scanRoots(rootScanned(scanNodeForBlockedElements(st, Head(roots)), Head(roots)),
                   Tail(roots))

ObserverState ==
    [parent |-> domParent, pending |-> pending, sched |-> scheduled,
     threw |-> FALSE, done |-> {}]

\* the page calls parent.appendChild(n); an insertion into the document queues a
\* mutation record with n in addedNodes
AppendChild ==
    /\ Len(records) < MaxRecords
    /\ \E n \in Nodes : \E p \in Parents(n) :
          /\ domParent[n] # p
          /\ domParent' = [domParent EXCEPT ![n] = p]
          /\ records' = IF isConnected(domParent', n) THEN Append(records, n) ELSE records
    /\ lastRoots' = {}
    /\ UNCHANGED <<pending, scheduled, domRest>>

\* the page calls n.remove()
RemoveChild ==
    /\ \E n \in Nodes :
          /\ domParent[n] # "none"
          /\ domParent' = [domParent EXCEPT ![n] = "none"]
    /\ lastRoots' = {}
    /\ UNCHANGED <<records, pending, scheduled, domRest>>

\* the MutationObserver delivers the queued records to the callback
ObserverCallback ==
    /\ records # <<>>
    /\ \E st \in {collectAll(ObserverState, records)} :
          /\ domParent' = st.parent
          /\ pending' = st.pending
          /\ scheduled' = st.sched
    /\ records' = <<>>
    /\ lastRoots' = {}
    /\ UNCHANGED domRest

\* the idle callback (or animation frame) runs runPending; pending is cleared before
\* the scans, and no scan adds to it, so the final schedule() is never reached
runPending ==
    /\ scheduled
    /\ scheduled' = FALSE
    /\ pending' = <<>>
    /\ \E st \in {scanRoots(ObserverState, pendingRoots(domParent, pending, <<>>))} :
          /\ domParent' = st.parent
          /\ lastRoots' = st.done
    /\ UNCHANGED <<records, domRest>>

NextObserver ==
    \/ AppendChild
    \/ RemoveChild
    \/ ObserverCallback
    \/ runPending
    \/ PushBlockedRule
    \/ PopBlockedRule

\* the step of ObserverCallback on records: no other action empties the queue
RecordsDelivered == records # <<>> /\ records' = <<>>

\* the step of runPending on scheduled: no other action clears the flag
CallbackRan == scheduled /\ scheduled' = FALSE

\* the observer under page insertions and removals; the browser runs every queued
\* callback: records are delivered at the next microtask checkpoint, the idle callback
\* has a timeout of 50 ms
SpecObserver ==
    /\ Init /\ [][NextObserver]_vars
    /\ WF_records(RecordsDelivered) /\ WF_scheduled(CallbackRan)

\* an element of the document whose src shouldBlock blocks
BlockedInDocument(n) == isConnected(domParent, n) /\ shouldBlock(Src(n)) = "true"

\* C27 (as claimed): every element added to the document that is, or contains, a
\* script[src] or iframe[src] with a blocked URL is eventually neutralized or removed,
\* and runPending drops no pending node that is still connected without scanning it
\* (the node itself or a root that contains it)
C27_AddedBlockedEventuallyRemoved ==
    /\ \A n \in Leaves : BlockedInDocument(n) ~> ~BlockedInDocument(n)
    /\ [][runPending =>
            \A i \in 1..Len(pending) :
               isConnected(domParent, pending[i])
               => \E r \in lastRoots' : contains(domParent, r, pending[i])]_vars

-----------------------------------------------------------------------------
(* URL cleaning runtime: src/unnamed/part_013 (url/runtime.js).            *)

\* the value of a statement sequence: each statement runs on the finished value of
\* the one before it
Only(values) == CHOOSE value \in values : TRUE

\* cleanHref once new URL(input, base) has returned u, as the value it returns: unwrap,
\* strip, per-domain rule, normalize, toString
cleanParsedResult(input, u) ==
    IF ~u.ok THEN input
    ELSE IF protocol(u) = JAVASCRIPT_PROTOCOL THEN Str(<<"a","b","o","u","t",":","b","l","a","n","k">>)
    ELSE IF protocol(u) \in {<<"d","a","t","a",":">>, <<"b","l","o","b",":">>, <<"a","b","o","u","t",":">>} THEN Str(Href(u))
    ELSE Only({Str(Href(normal)) :
               normal \in {normalize(ruled) :
               ruled \in {byDomain(stripped) :
               stripped \in {stripParams(target, {}, FALSE) :
               target \in {OrURL(resolveRedirector(u), u)}}}}})

\* URLCleaner.cleanHref(current, el.baseURI) as the value it returns
cleanHrefResult(input) ==
    IF input.t = "str" /\ startsWith(toLowerCase(trim(input.s)), JAVASCRIPT_PROTOCOL)
    THEN Str(<<"a","b","o","u","t",":","b","l","a","n","k">>)
    ELSE Only({cleanParsedResult(input, u) : u \in {ParseURL(String(input), resolveBase)}})

\* isBlockedUrl(url): shouldBlockImpl is PrivacyGuard.shouldBlock, a throw counts as false
isBlockedUrl(url) == shouldBlock(url) = "true"

\* tryCreateUrl(value, bases), every base being the page's URL
tryCreateUrl(value) ==
    IF value.t # "str" \/ Len(value.s) = 0 \/ value.s = <<"a","b","o","u","t",":","b","l","a","n","k">> THEN FailURL
    ELSE OrURL(ParseURL(value.s, FailURL), ParseURL(value.s, Location))

\* the getter u.search
search(u) == IF u.hasQuery /\ Len(u.query) > 0 THEN <<"?">> \o u.query ELSE <<>>

\* relativizeSameOriginAnchorHref once resolveMatchingBase has parsed the cleaned value
relativizeResolved(originalHref, cleanedValue, cleanedUrl) ==
    IF \/ Len(originalHref) = 0
       \/ SchemeEnd(originalHref) > 0
       \/ startsWith(originalHref, <<"/","/">>)
    THEN cleanedValue
    ELSE IF /\ cleanedValue.t = "str" /\ Len(cleanedValue.s) > 0
            /\ cleanedUrl.ok /\ ~cleanedUrl.opaque
            /\ OriginOf(cleanedUrl) = OriginOf(Location)
    THEN Str(cleanedUrl.pathname \o search(cleanedUrl) \o hash(cleanedUrl))
    ELSE cleanedValue

\* relativizeSameOriginAnchorHref(el, "href", originalValue, cleanedValue) on an anchor
relativizeSameOriginAnchorHref(originalValue, cleanedValue) ==
    Only({relativizeResolved(String(originalValue), cleanedValue, cleanedUrl) :
          cleanedUrl \in {tryCreateUrl(cleanedValue)}})

\* the anchor as the handlers see it; queued: they called setAttribute on an observed
\* attribute, neutralized: handleAnchorRewrite returned true, handled: rewriteElAttr
\* went past its early returns
AnchorState ==
    [href |-> anchorHref, pgBlock |-> pgBlock, cleaned |-> pgCleaned,
     queued |-> FALSE, neutralized |-> FALSE, handled |-> FALSE]

\* handleAnchorRewrite: cleanedString, and whether it is blocked
cleanedString(cleaned) == IF cleaned.t = "str" THEN cleaned.s ELSE <<>>

anchorBlocked(text) == text = <<"a","b","o","u","t",":","b","l","a","n","k">> \/ (Len(text) > 0 /\ isBlockedUrl(Str(text)))

\* rewriteElAttr after cleanHref: handleAnchorRewrite (blocked), then the relativized
\* value is written when it differs; mark is dataset.privacyGuardCleaned afterwards
rewriteCleaned(el, mark, blocked, relative) ==
    IF blocked
    THEN [el EXCEPT !.pgBlock = TRUE, !.href = Str(<<"#">>), !.queued = TRUE,
                    !.cleaned = mark, !.neutralized = TRUE, !.handled = TRUE]
    ELSE IF ~Truthy(relative) \/ relative = el.href
    THEN [el EXCEPT !.pgBlock = FALSE, !.cleaned = mark, !.handled = TRUE]
    ELSE [el EXCEPT !.pgBlock = FALSE, !.href = relative, !.queued = TRUE,
                    !.cleaned = mark, !.handled = TRUE]

\* rewriteElAttr with the value cleanHref returned
rewriteWith(el, force, cleaned) ==
    Only({rewriteCleaned(el, IF force THEN el.cleaned ELSE TRUE, blocked, relative) :
          blocked \in {anchorBlocked(cleanedString(cleaned))},
          relative \in {relativizeSameOriginAnchorHref(el.href, cleaned)}})

\* rewriteElAttr(el, "href", {force}) with handleAnchorRewrite, on the anchor
rewriteElAttr(el, force) ==
    IF ~Truthy(el.href) THEN el
    ELSE IF ~force /\ el.cleaned THEN el
    ELSE Only({rewriteWith(el, force, cleaned) : cleaned \in {cleanHrefResult(el.href)}})

\* hardenAnchor(a): removeAttribute("ping") of an anchor without ping, then
\* setAttribute("rel", ...), an observed attribute
hardenAnchor(el) == [el EXCEPT !.queued = TRUE]

\* sweep(root) on a root that contains the anchor: processSweepTarget unless marked
sweep(el) == IF el.cleaned THEN el ELSE hardenAnchor(rewriteElAttr(el, FALSE))

\* one record of the observer's callback: an added wrapper is swept; an attribute
\* record on the anchor drops the mark and sweeps the anchor, whose querySelectorAll
\* covers descendants only and finds none
processRecord(el, record) ==
    IF record = "added" THEN sweep(el) ELSE [el EXCEPT !.cleaned = FALSE]

RECURSIVE processRecords(_, _)
processRecords(el, recs) ==
    IF recs = <<>> THEN el ELSE processRecords(processRecord(el, Head(recs)), Tail(recs))

\* a record joins the queue; a repeat of the last record adds nothing, the callback
\* treats both alike
queueRecord(queue, record) ==
    IF Len(queue) > 0 /\ queue[Len(queue)] = record THEN queue ELSE Append(queue, record)

\* the page queues at most this many records
MaxRtRecords == 2

\* hrefs the page assigns to the anchor
RuntimeHrefs ==
    {Str(<<"h","t","t","p","s",":","/","/","a","d","s",".","d","o","u","b","l","e","c","l","i","c","k",".","n","e","t","/","c","l","i","c","k","?","i","d","=","1">>),
     Str(<<"h","t","t","p","s",":","/","/","s","h","o","p",".","e","x","a","m","p","l","e","/","i","t","e","m","?","u","t","m","_","s","o","u","r","c","e","=","n","e","w","s">>),
     Str(<<"/","n","e","x","t","?","u","t","m","_","s","o","u","r","c","e","=","n","e","w","s">>)}

\* the anchor after a handler ran, and the records its setAttribute calls queued
AnchorWritten(el, queue) ==
    /\ anchorHref' = el.href
    /\ pgBlock' = el.pgBlock
    /\ pgCleaned' = el.cleaned
    /\ rtRecords' = IF el.queued THEN queueRecord(queue, "attr") ELSE queue
    /\ held' = (held \/ el.neutralized)
    /\ wasCleaned' = (wasCleaned \/ el.handled)
    /\ recleanDue' = (recleanDue /\ ~el.handled)

\* the page assigns anchor.href
PageSetHref ==
    /\ Len(rtRecords) < MaxRtRecords
    /\ \E value \in RuntimeHrefs : anchorHref' = value
    /\ rtRecords' = queueRecord(rtRecords, "attr")
    /\ held' = FALSE
    /\ recleanDue' = wasCleaned
    /\ UNCHANGED <<pgBlock, pgCleaned, rtBatches, wasCleaned, clickResult, rtRest>>

\* the page appends the wrapper that contains the anchor
PageAppendWrapper ==
    /\ Len(rtRecords) < MaxRtRecords
    /\ rtRecords' = queueRecord(rtRecords, "added")
    /\ UNCHANGED <<anchorHref, pgBlock, pgCleaned, rtBatches, held, recleanDue, wasCleaned,
                   clickResult, rtRest>>

\* interceptHover: mouseover on the anchor
MouseOver ==
    /\ \E el \in {rewriteElAttr(AnchorState, FALSE)} : AnchorWritten(el, rtRecords)
    /\ UNCHANGED <<rtBatches, clickResult, rtRest>>

\* interceptContextMenu: contextmenu on the anchor
ContextMenu ==
    /\ \E el \in {rewriteElAttr(AnchorState, FALSE)} : AnchorWritten(el, rtRecords)
    /\ UNCHANGED <<rtBatches, clickResult, rtRest>>

\* handleNavigationEvent: a click, or an auxclick of the middle button, on the anchor
handleNavigationEvent ==
    /\ \E type \in {"click", "auxclick"} :
       \E el \in {rewriteElAttr(AnchorState, TRUE)} :
          /\ AnchorWritten(el, rtRecords)
          /\ clickResult' =
                [type |-> type,
                 prevented |-> \/ el.pgBlock
                               \/ el.href = Str(<<"a","b","o","u","t",":","b","l","a","n","k">>)
                               \/ /\ Truthy(el.href) /\ ~startsWith(el.href.s, <<"#">>)
                                  /\ isBlockedUrl(el.href),
                 href |-> el.href,
                 held |-> held]
    /\ UNCHANGED <<rtBatches, rtRest>>

\* observeMutations: the callback on the queued records
observeMutations ==
    /\ rtRecords # <<>>
    /\ \E el \in {processRecords(AnchorState, rtRecords)} : AnchorWritten(el, <<>>)
    /\ rtBatches' = 1 - rtBatches
    /\ UNCHANGED <<clickResult, rtRest>>

NextRuntime ==
    \/ PageSetHref
    \/ PageAppendWrapper
    \/ MouseOver
    \/ ContextMenu
    \/ handleNavigationEvent
    \/ observeMutations

\* the step of observeMutations on rtBatches: no other action changes it
BatchDelivered == rtRecords # <<>> /\ rtBatches' = 1 - rtBatches

\* the runtime under page changes and pointer events; queued mutation records are
\* delivered at the next microtask checkpoint
SpecRuntime == Init /\ [][NextRuntime]_vars /\ WF_rtBatches(BatchDelivered)

\* C28 (as claimed): when the page changes the href of the anchor the runtime has
\* cleaned, the new value is eventually handed to rewriteElAttr again
C28_ChangedAttributeRecleaned == recleanDue ~> ~recleanDue

\* C29 (as claimed): a click or middle click on the anchor, neutralized earlier and
\* not given a new href by the page since, is default-prevented
C29_NeutralizedStaysInert ==
    (clickResult.type # "none" /\ clickResult.held) => clickResult.prevented

-----------------------------------------------------------------------------
(* Per-host overrides: src/src/config.js (applyOverridesForHost, 20-37) and
   src/src/ui/panel.js (persistOverrides, resetOverrides, 411-426).        *)

\* what collectOverridesFromDom reads from the panel's controls
PanelOverrides ==
    [present : {TRUE}, enabled : BOOLEAN, networkBlock : {"fail", "silent"},
     scriptBlockMode : {"createElement", "observer"}, allowSameOrigin : BOOLEAN]

\* applyOverridesForHost(location.hostname, STORAGE) with the entry stored: the three
\* settings afterwards; FEATURES.perDomainOverrides is true
applyOverridesForHost(stored) ==
    IF ~stored.present \/ ~stored.enabled
    THEN UNCHANGED <<networkBlock, scriptBlockMode, allowSameOrigin>>
    ELSE /\ networkBlock' = IF stored.networkBlock \in {"fail", "silent"}
                            THEN stored.networkBlock ELSE networkBlock
         /\ scriptBlockMode' = IF stored.scriptBlockMode \in {"createElement", "observer"}
                               THEN stored.scriptBlockMode ELSE scriptBlockMode
         /\ allowSameOrigin' = IF stored.allowSameOrigin \in BOOLEAN
                               THEN stored.allowSameOrigin ELSE allowSameOrigin

configRest ==
    <<BLOCKED_HOSTS, BLOCKED_RULES, ALLOWED_HOSTS, ALLOWED_RULES, blockUrl, blockResult,
      cleanVars, xhrStored, xhrTarget, xhrReady, xhrNativeSends, xhrMicrotasks, xhrSends,
      fetchNative, fetchOutcome, hookVars, domVars, rtVars>>

\* entries another writer of the origin's localStorage leaves under the host's key
StoredOverrides ==
    [present : {TRUE}, enabled : BOOLEAN, networkBlock : {"fail", "silent", "invalid"},
     scriptBlockMode : {"createElement", "observer", "other"}, allowSameOrigin : BOOLEAN]

\* persistOverrides: a control of the panel changed
persistOverrides ==
    /\ \E next \in PanelOverrides :
          /\ overrides' = next
          /\ applyOverridesForHost(next)
    /\ overridesApplied' = TRUE
    /\ UNCHANGED configRest

\* resetOverrides: the panel's Reset button
resetOverrides ==
    /\ overrides' = NoOverrides
    /\ applyOverridesForHost(NoOverrides)
    /\ overridesApplied' = TRUE
    /\ UNCHANGED configRest

\* a page script or another tab writes the host's entry in localStorage
StorageWritten ==
    /\ \E next \in StoredOverrides : overrides' = next
    /\ overridesApplied' = FALSE
    /\ UNCHANGED <<networkBlock, scriptBlockMode, allowSameOrigin, configRest>>

NextConfig ==
    \/ persistOverrides
    \/ resetOverrides
    \/ StorageWritten

\* the panel's override controls and its Reset button
SpecConfig == Init /\ [][NextConfig]_vars

\* C30 (as claimed): while the host has no stored overrides, or disabled ones, and
\* applyOverridesForHost has run on them, the three settings have their built-in
\* defaults
C30_DefaultsRestored ==
    (overridesApplied /\ (~overrides.present \/ ~overrides.enabled))
    => /\ networkBlock = "fail"
       /\ scriptBlockMode = "createElement"
       /\ allowSameOrigin = FALSE

=============================================================================
